---- MODULE Spec2Model ----
(***************************************************************************)
(* Model of the multi-role support-ticket backend.                         *)
(*                                                                         *)
(* The relational database "agentic_ai" is shared by every backend module; *)
(* it is modelled by the variables users, tickets and assignments.  Every  *)
(* connection is opened with autocommit = True, so each SQL statement is   *)
(* its own transaction.                                                    *)
(*                                                                         *)
(* Free text (notes, reasons, replies) is a sequence of word tokens; the   *)
(* SQL NULL and the empty string are both the empty sequence.              *)
(***************************************************************************)
EXTENDS Integers, Sequences, FiniteSets, TLC

VARIABLES
    users,        \* users table: id -> row
    tickets,      \* tickets table: sequence of rows, the id is the index
    assignments,  \* ticket_assignments table: sequence of rows
    visible,      \* the last answer of the visibility engine, until it is returned
    pc,           \* per request slot: the statement a backend/main.py handler is at
    req,          \* per request slot: the request and, once answered, its response
    nCalls,       \* number of requests / calls started so far
    response,     \* the last response of backend/app/main.py, until it is delivered
    issued,       \* tokens handed out by /login, with the user row they were issued for
    revokeCalls,  \* tokens revoke_token has been called on
    session,      \* the last outcome of get_user, until it is returned
    userCall,     \* the last call on the users table and its result, until it returns
    knowledge_base,        \* the entries of data/knowledge_base.json
    kbCall,                \* the last AIEngine.get_response call, until it returns
    aiCall,                \* the last ask_ai_hybrid / needs_human call, until it returns
    conversation_sessions, \* backend/app/main.py: session id -> conversation state
    chatReply,             \* the last reply of POST /chat, until it is delivered
    opCall,                \* the last ticket operation with its notifications, until it returns
    user_settings,         \* app/database.py: the user_settings table, or no table
    sql_strict,            \* whether the server's sql_mode rejects over-long values
    posted,                \* user id -> the settings of the user's last POST answered with success
    settingsReply,         \* the last reply of GET or POST /user/settings, until it is delivered
    accounts,              \* the rows added to users by the registration and create-user code
    accountReply           \* the last reply of a registration or create-user request

authVars == <<issued, revokeCalls, session, userCall>>

kbVars == <<knowledge_base, kbCall, aiCall>>

chatVars == <<conversation_sessions, chatReply>>

notifyVars == <<opCall>>

settingsVars == <<user_settings, sql_strict, posted, settingsReply>>

accountVars == <<accounts, accountReply>>

extVars == <<notifyVars, settingsVars, accountVars>>

serviceVars == <<kbVars, chatVars, extVars>>

vars == <<users, tickets, assignments, visible, pc, req, nCalls, response, authVars,
          serviceVars>>

(***************************************************************************)
(* Bounds                                                                  *)
(***************************************************************************)
\* longest query given to AIEngine.get_response
MaxQueryLen == 3
\* most entries in the knowledge base file
MaxEntries == 2
MaxTickets == 2
\* length of the runs explored: calls that may change the database
MaxCalls == 5
\* number of HTTP requests of a run
MaxRequests == 4
\* accounts created in one run
MaxAccounts == 2

(***************************************************************************)
(* users table                                                             *)
(***************************************************************************)
Roles == {"client", "developer", "project_manager", "admin"}

Clients == {1, 2}
Developers == {3, 4}
ProjectManagers == {5}
Admins == {6}
UserIds == Clients \cup Developers \cup ProjectManagers \cup Admins

RoleOf(u) ==
    IF u \in Clients THEN "client"
    ELSE IF u \in Developers THEN "developer"
    ELSE IF u \in ProjectManagers THEN "project_manager"
    ELSE "admin"

\* the admin has an e-mail address on file, the project manager has none
InitUsers ==
    [u \in UserIds |-> [role |-> RoleOf(u), is_active |-> TRUE, has_email |-> (u # 5)]]

\* SQL NULL in an integer column
NULL == 0

Statuses == {"OPEN", "IN_PROGRESS", "CLOSED"}
Priorities == {"LOW", "MEDIUM", "HIGH", "CRITICAL"}

TicketIds(tk) == DOMAIN tk

\* the marker looked for by the visibility engine
InternalMarker == "INTERNAL:"

\* 'INTERNAL:' in str(text)
ContainsMarker(text) == \E i \in DOMAIN text : text[i] = InternalMarker

(***************************************************************************)
(* Input sets drawn on by the actions                                      *)
(***************************************************************************)
NoteInputs == {<<"see", "log">>, <<InternalMarker, "vip">>}
ReasonInputs == {<<"busy">>}
CompletionInputs == {<<"done">>}
StatusNoteInputs == {<<>>, <<" ">>, <<"done">>}
StatusInputs == {"OPEN", "IN_PROGRESS", "CLOSED"}
PriorityInputs == {"HIGH", "urgent"}

(***************************************************************************)
(* enhanced_rbac_database.py: ticket operations.  Each function is a       *)
(* verification SELECT followed by one UPDATE of the tickets row.          *)
(***************************************************************************)
\* variant: the INSERT leaves user_id out
NewTicket_unowned(client_id, priority) ==
    [user_id |-> NULL, status |-> "OPEN", priority |-> priority,
     assigned_developer_id |-> NULL, assigned_to |-> NULL,
     assignment_notes |-> <<>>, reply |-> <<>>]

NewTicket(client_id, priority) ==
    [user_id |-> client_id, status |-> "OPEN", priority |-> priority,
     assigned_developer_id |-> NULL, assigned_to |-> NULL,
     assignment_notes |-> <<>>, reply |-> <<>>]

create_ticket_by_client(tk, client_id, priority) ==
    Append(tk, NewTicket(client_id,
                         IF priority \in Priorities THEN priority ELSE "MEDIUM"))

assign_ticket_to_developer_check(us, tk, ticket_id, developer_id) ==
    /\ ticket_id \in TicketIds(tk)
    /\ tk[ticket_id].status = "OPEN"
    /\ developer_id \in DOMAIN us
    /\ us[developer_id].role = "developer"
    /\ us[developer_id].is_active

assign_ticket_to_developer_update(tk, ticket_id, developer_id, notes) ==
    [tk EXCEPT ![ticket_id].assigned_developer_id = developer_id,
               ![ticket_id].assignment_notes = notes,
               ![ticket_id].status = "IN_PROGRESS"]

self_assign_ticket_check(tk, ticket_id) ==
    /\ ticket_id \in TicketIds(tk)
    /\ tk[ticket_id].assigned_developer_id = NULL
    /\ tk[ticket_id].status = "OPEN"

self_assign_ticket_update(tk, ticket_id, developer_id) ==
    [tk EXCEPT ![ticket_id].assigned_developer_id = developer_id,
               ![ticket_id].assignment_notes = <<"Self-assigned">>,
               ![ticket_id].status = "IN_PROGRESS"]

complete_ticket_by_developer_check(tk, ticket_id, developer_id) ==
    /\ ticket_id \in TicketIds(tk)
    /\ tk[ticket_id].assigned_developer_id = developer_id
    /\ tk[ticket_id].status = "IN_PROGRESS"

complete_ticket_by_developer_update(tk, ticket_id, completion_notes) ==
    [tk EXCEPT ![ticket_id].status = "CLOSED",
               ![ticket_id].reply = completion_notes]

\* the JOIN on users d needs the assignee to exist in users
pass_ticket_by_developer_check(us, tk, ticket_id, developer_id) ==
    /\ ticket_id \in TicketIds(tk)
    /\ tk[ticket_id].assigned_developer_id = developer_id
    /\ developer_id \in DOMAIN us

pass_ticket_by_developer_update(tk, ticket_id, reason) ==
    [tk EXCEPT ![ticket_id].assigned_developer_id = NULL,
               ![ticket_id].assignment_notes = <<"Passed by developer:">> \o reason,
               ![ticket_id].status = "OPEN"]

cancel_ticket_by_developer_check(us, tk, ticket_id, developer_id) ==
    /\ ticket_id \in TicketIds(tk)
    /\ tk[ticket_id].assigned_developer_id = developer_id
    /\ developer_id \in DOMAIN us
    /\ tk[ticket_id].user_id \in DOMAIN us

cancel_ticket_by_developer_update(tk, ticket_id, reason) ==
    [tk EXCEPT ![ticket_id].status = "CLOSED",
               ![ticket_id].reply = <<"Ticket cancelled by developer:">> \o reason]

update_ticket_status_by_developer_check(tk, ticket_id, developer_id) ==
    /\ ticket_id \in TicketIds(tk)
    /\ tk[ticket_id].assigned_developer_id = developer_id

update_ticket_status_by_developer_update(tk, ticket_id, status, notes) ==
    IF status = "CLOSED"
    THEN [tk EXCEPT ![ticket_id].status = status,
                    ![ticket_id].reply = notes]
    ELSE [tk EXCEPT ![ticket_id].status = status,
                    ![ticket_id].assignment_notes = notes]

(***************************************************************************)
(* ticket_visibility_engine.py                                             *)
(***************************************************************************)
\* roles known to TicketVisibilityEngine.visibility_rules
visibility_rules == {"client", "developer", "project_manager", "admin"}

\* LIMIT of the visibility query
QueryLimit == 1000

Min(a, b) == IF a < b THEN a ELSE b

\* a row of the tickets table as the SELECT returns it
Row(tk, id) == [id |-> id] @@ tk[id]

\* ORDER BY t.created_at DESC: newest (highest id) first
RowsNewestFirst(tk) == [i \in 1..Len(tk) |-> Row(tk, Len(tk) + 1 - i)]

\* filters = None, or a dict without any usable key
NoFilters == [status |-> {}, priority |-> {}, has_assigned_to |-> FALSE, assigned_to |-> <<>>]

FilterInputs ==
    { NoFilters,
      [NoFilters EXCEPT !.status = {"OPEN", "IN_PROGRESS"}],
      [NoFilters EXCEPT !.status = {"CLOSED"}],
      [NoFilters EXCEPT !.priority = {"HIGH"}],
      [NoFilters EXCEPT !.has_assigned_to = TRUE, !.assigned_to = <<NULL>>],
      [NoFilters EXCEPT !.has_assigned_to = TRUE, !.assigned_to = <<3>>] }

\* _build_base_query with the developer clause restricted to the caller's
\* own assignments
_build_base_query_own_assigned(row, user_id, user_role) ==
    IF user_role = "client" THEN row.user_id = user_id
    ELSE IF user_role = "developer" THEN row.assigned_developer_id = user_id
    ELSE IF user_role = "project_manager" THEN row.status \in {"OPEN", "IN_PROGRESS"}
    ELSE IF user_role = "admin" THEN TRUE
    ELSE FALSE

\* WHERE clause chosen by role
_build_base_query(row, user_id, user_role) ==
    IF user_role = "client" THEN row.user_id = user_id
    ELSE IF user_role = "developer" THEN row.status \in {"OPEN", "IN_PROGRESS"}
    ELSE IF user_role = "project_manager" THEN row.status \in {"OPEN", "IN_PROGRESS"}
    ELSE IF user_role = "admin" THEN TRUE
    ELSE FALSE

\* ids of an assigned_to list that are not None
ValidIds(assigned_to) == {assigned_to[i] : i \in DOMAIN assigned_to} \ {NULL}

\* conjunction of the optional filter clauses
_build_filter_clause(row, filters) ==
    /\ filters.status # {} => row.status \in filters.status
    /\ filters.priority # {} => row.priority \in filters.priority
    /\ filters.has_assigned_to =>
         IF filters.assigned_to = <<NULL>>
         THEN row.assigned_developer_id = NULL
         ELSE ValidIds(filters.assigned_to) # {} =>
                 row.assigned_developer_id \in ValidIds(filters.assigned_to)

HiddenNotes == <<"[Internal notes hidden]">>

_apply_role_based_filtering(rows, user_role, user_id) ==
    IF user_role = "client"
    THEN SelectSeq(rows, LAMBDA r : r.user_id = user_id)
    ELSE IF user_role \in {"developer", "project_manager", "admin"}
    THEN IF user_role # "admin"
         THEN [i \in DOMAIN rows |->
                 IF rows[i].assignment_notes # <<>> /\ ContainsMarker(rows[i].assignment_notes)
                 THEN [rows[i] EXCEPT !.assignment_notes = HiddenNotes]
                 ELSE rows[i]]
         ELSE rows
    ELSE <<>>

\* get_visible_tickets handing the staff role to both helpers whatever the
\* caller's role is
get_visible_tickets_role_mixup(tk, user_id, user_role, filters) ==
    IF user_id = 0 \/ user_role = "" THEN <<>>
    ELSE IF user_role \notin visibility_rules THEN <<>>
    ELSE LET matching == SelectSeq(RowsNewestFirst(tk),
                            LAMBDA r : /\ _build_base_query(r, user_id, "project_manager")
                                       /\ _build_filter_clause(r, filters))
             fetched == SubSeq(matching, 1, Min(Len(matching), QueryLimit))
         IN _apply_role_based_filtering(fetched, "project_manager", user_id)

get_visible_tickets(tk, user_id, user_role, filters) ==
    IF user_id = 0 \/ user_role = "" THEN <<>>
    ELSE IF user_role \notin visibility_rules THEN <<>>
    ELSE LET matching == SelectSeq(RowsNewestFirst(tk),
                            LAMBDA r : /\ _build_base_query(r, user_id, user_role)
                                       /\ _build_filter_clause(r, filters))
             fetched == SubSeq(matching, 1, Min(Len(matching), QueryLimit))
         IN _apply_role_based_filtering(fetched, user_role, user_id)

(***************************************************************************)
(* Initial state: the seeded users, no tickets, no request in flight.      *)
(***************************************************************************)
Procs == {1, 2}

NoUser == [id |-> 0, role |-> ""]

NoRequest ==
    [handler |-> "", user |-> NoUser, ticket_id |-> 0, developer_id |-> 0,
     status |-> "", text |-> <<>>, code |-> 0, ran |-> FALSE]

NoQuery == [user_id |-> 0, user_role |-> "", filters |-> NoFilters, tickets |-> <<>>]

NoResponse == [handler |-> "", user |-> NoUser, ticket_id |-> 0, code |-> 0, tickets |-> <<>>]

NoToken == [payload |-> NoUser, sig |-> ""]

NoSession == [authorization |-> NoToken, code |-> 0, user |-> NoUser]

NoKbCall == [called |-> FALSE, query |-> <<>>, found |-> FALSE, entry |-> 0]

NoAiCall == [called |-> FALSE, q |-> <<>>, client |-> FALSE, api_ok |-> FALSE,
             source |-> "", conf |-> 0, needs_human |-> FALSE]

\* session ids a client may send
SessionIds == {"s1", "s2"}

NoConversation == [state |-> "", original_query |-> <<>>]

NoReply == [kind |-> "", user |-> NoUser, session_id |-> "", source |-> "",
            original_query |-> <<>>, confidence |-> 0]

NoCall == [fn |-> "", user_id |-> 0, admin_id |-> 0, password_ok |-> FALSE, result |-> FALSE]

NoOpCall ==
    [fn |-> "", ticket_id |-> 0, developer_id |-> 0, smtp |-> "", accepted |-> FALSE,
     email_attempted |-> FALSE, notified |-> {}, raised |-> FALSE, result |-> FALSE]

\* the defaults of UserSettingsRequest and of get_user_settings
NoEmail == [text |-> "", len |-> 0]

DefaultSettings ==
    [email |-> NoEmail, emailNotifications |-> TRUE, browserNotifications |-> TRUE,
     ticketAssignmentNotifications |-> TRUE, ticketUpdateNotifications |-> TRUE]

NoRow == [present |-> FALSE, row |-> DefaultSettings]

NoPost == [posted |-> FALSE, settings |-> DefaultSettings]

NoSettingsReply == [handler |-> "", user_id |-> 0, code |-> 0, settings |-> DefaultSettings]

NoAccountReply == [handler |-> "", user |-> NoUser, role |-> "", code |-> 0]

InitCore ==
    /\ users = InitUsers
    /\ tickets = <<>>
    /\ assignments = <<>>
    /\ visible = NoQuery
    /\ pc = [p \in Procs |-> "idle"]
    /\ req = [p \in Procs |-> NoRequest]
    /\ nCalls = 0
    /\ response = NoResponse
    /\ issued = {}
    /\ revokeCalls = {}
    /\ session = NoSession
    /\ userCall = NoCall
    /\ kbCall = NoKbCall
    /\ aiCall = NoAiCall
    /\ conversation_sessions = [sid \in SessionIds |-> NoConversation]
    /\ chatReply = NoReply
    /\ opCall = NoOpCall
    /\ posted = [u \in UserIds |-> NoPost]
    /\ settingsReply = NoSettingsReply
    /\ accounts = <<>>
    /\ accountReply = NoAccountReply

\* the user_settings table of setup_localhost_wamp.py, still without rows
InitTables ==
    /\ InitCore
    /\ user_settings = [exists |-> TRUE, rows |-> [u \in UserIds |-> NoRow]]
    /\ sql_strict = TRUE

\* no data/knowledge_base.json: _load_knowledge_base leaves the list empty
Init ==
    /\ InitTables
    /\ knowledge_base = <<>>

(***************************************************************************)
(* Specification of enhanced_rbac_database.py with the visibility engine:  *)
(* one call at a time, each call from its SELECT to its return.            *)
(***************************************************************************)
\* a call that may write: nothing else is pending, and the run is not over
CallStarts ==
    /\ visible = NoQuery
    /\ nCalls < MaxCalls
    /\ nCalls' = nCalls + 1
    /\ UNCHANGED <<users, assignments, visible, pc, req, response, authVars, serviceVars>>

CreateTicketByClient ==
    \E c \in Clients, p \in PriorityInputs :
        /\ Len(tickets) < MaxTickets
        /\ CallStarts
        /\ tickets' = create_ticket_by_client(tickets, c, p)

AssignTicketToDeveloper ==
    \E t \in TicketIds(tickets), d \in UserIds, n \in NoteInputs :
        /\ CallStarts
        /\ assign_ticket_to_developer_check(users, tickets, t, d)
        /\ tickets' = assign_ticket_to_developer_update(tickets, t, d, n)

SelfAssignTicket ==
    \E t \in TicketIds(tickets), d \in Developers :
        /\ CallStarts
        /\ self_assign_ticket_check(tickets, t)
        /\ tickets' = self_assign_ticket_update(tickets, t, d)

CompleteTicketByDeveloper ==
    \E t \in TicketIds(tickets), d \in Developers, n \in CompletionInputs :
        /\ CallStarts
        /\ complete_ticket_by_developer_check(tickets, t, d)
        /\ tickets' = complete_ticket_by_developer_update(tickets, t, n)

PassTicketByDeveloper ==
    \E t \in TicketIds(tickets), d \in Developers, r \in ReasonInputs :
        /\ CallStarts
        /\ pass_ticket_by_developer_check(users, tickets, t, d)
        /\ tickets' = pass_ticket_by_developer_update(tickets, t, r)

CancelTicketByDeveloper ==
    \E t \in TicketIds(tickets), d \in Developers, r \in ReasonInputs :
        /\ CallStarts
        /\ cancel_ticket_by_developer_check(users, tickets, t, d)
        /\ tickets' = cancel_ticket_by_developer_update(tickets, t, r)

UpdateTicketStatusByDeveloper ==
    \E t \in TicketIds(tickets), d \in Developers, s \in Statuses, n \in CompletionInputs :
        /\ CallStarts
        /\ update_ticket_status_by_developer_check(tickets, t, d)
        /\ tickets' = update_ticket_status_by_developer_update(tickets, t, s, n)

\* the callers of the engine: each user under their own role, and any user
\* presented as a client
VisibilityCallers ==
    {<<u, RoleOf(u)>> : u \in UserIds} \cup {<<u, "client">> : u \in UserIds}

GetVisibleTickets ==
    \E c \in VisibilityCallers, f \in FilterInputs :
        /\ visible = NoQuery
        /\ visible' = [user_id |-> c[1], user_role |-> c[2], filters |-> f,
                       tickets |-> get_visible_tickets(tickets, c[1], c[2], f)]
        /\ UNCHANGED <<users, tickets, assignments, pc, req, nCalls, response, authVars, serviceVars>>

\* the answer is handed to the caller
ReturnVisibleTickets ==
    /\ visible # NoQuery
    /\ visible' = NoQuery
    /\ UNCHANGED <<users, tickets, assignments, pc, req, nCalls, response, authVars, serviceVars>>

NextRbac ==
    \/ CreateTicketByClient
    \/ AssignTicketToDeveloper
    \/ SelfAssignTicket
    \/ CompleteTicketByDeveloper
    \/ PassTicketByDeveloper
    \/ CancelTicketByDeveloper
    \/ UpdateTicketStatusByDeveloper
    \/ GetVisibleTickets
    \/ ReturnVisibleTickets

SpecRbac == Init /\ [][NextRbac]_vars

(***************************************************************************)
(* enhanced_rbac_database.py with email_service.py: the notifications of   *)
(* the ticket operations.  The connection is in autocommit mode, so each   *)
(* UPDATE is applied before the notifications are sent.                    *)
(***************************************************************************)
\* what an attempt to send meets: a working server, missing credentials, an
\* SMTP error, or a failure outside send_email (the import or the template)
SmtpOutcomes == {"ok", "no_credentials", "smtp_error", "import_error"}

\* send_email: every exception ends in "return False"
send_email(smtp) == smtp = "ok"

\* send_ticket_assigned_email and the other senders: what the caller gets
SendOutcome(smtp) ==
    IF smtp = "import_error" THEN "raises"
    ELSE IF send_email(smtp) THEN "true"
    ELSE "false"

\* create_notification: the INSERT, or 0 after an exception
create_notification(db_ok, target) == IF db_ok THEN {target} ELSE {}

\* an exception leaves the function unless a try/except around the call swallows it
Raises(guarded, outcome) == ~guarded /\ outcome = "raises"

Notified(raised, attempted, notified) ==
    [raised |-> raised, email_attempted |-> attempted, notified |-> notified]

\* the JOIN of notify_ticket_assigned on the client, the developer and the assigner
TicketInfo(us, tk, ticket_id, user_ids) ==
    /\ ticket_id \in TicketIds(tk)
    /\ tk[ticket_id].user_id \in DOMAIN us
    /\ user_ids \subseteq DOMAIN us

\* variant: the body of notify_ticket_assigned outside try/except
notify_ticket_assigned_unguarded(us, tk, ticket_id, developer_id, assigned_by, smtp, db_ok) ==
    IF ~TicketInfo(us, tk, ticket_id, {developer_id, assigned_by})
    THEN Notified(FALSE, FALSE, {})
    ELSE IF us[tk[ticket_id].user_id].has_email /\ SendOutcome(smtp) = "raises"
    THEN Notified(Raises(FALSE, SendOutcome(smtp)), TRUE, {})
    ELSE Notified(FALSE, us[tk[ticket_id].user_id].has_email,
                  create_notification(db_ok, "developer")
                      \cup create_notification(db_ok, "admin"))

notify_ticket_assigned(us, tk, ticket_id, developer_id, assigned_by, smtp, db_ok) ==
    IF ~TicketInfo(us, tk, ticket_id, {developer_id, assigned_by})
    THEN Notified(FALSE, FALSE, {})
    ELSE IF us[tk[ticket_id].user_id].has_email /\ SendOutcome(smtp) = "raises"
    THEN Notified(Raises(TRUE, SendOutcome(smtp)), TRUE, {})
    ELSE Notified(FALSE, us[tk[ticket_id].user_id].has_email,
                  create_notification(db_ok, "developer")
                      \cup create_notification(db_ok, "admin"))

notify_ticket_completed(us, tk, ticket_id, developer_id, smtp, db_ok) ==
    IF ~TicketInfo(us, tk, ticket_id, {developer_id})
    THEN Notified(FALSE, FALSE, {})
    ELSE IF us[tk[ticket_id].user_id].has_email /\ SendOutcome(smtp) = "raises"
    THEN Notified(Raises(TRUE, SendOutcome(smtp)), TRUE, {})
    ELSE Notified(FALSE, us[tk[ticket_id].user_id].has_email,
                  create_notification(db_ok, "admin")
                      \cup create_notification(db_ok, "project_manager"))

\* rows of "SELECT email FROM users WHERE role IN ('admin', 'project_manager')
\* AND is_active=TRUE AND email IS NOT NULL"
admin_emails(us) ==
    {u \in DOMAIN us : /\ us[u].role \in {"admin", "project_manager"}
                       /\ us[u].is_active
                       /\ us[u].has_email}

\* pass_ticket_by_developer after its UPDATEs: the INSERT for both roles,
\* then the e-mail inside try/except
pass_ticket_notifications(us, smtp) ==
    Notified(admin_emails(us) # {} /\ Raises(TRUE, SendOutcome(smtp)),
             admin_emails(us) # {}, {"admin", "project_manager"})

\* cancel_ticket_by_developer after its UPDATE
cancel_ticket_notifications(us, tk, ticket_id, smtp) ==
    Notified(us[tk[ticket_id].user_id].has_email /\ Raises(TRUE, SendOutcome(smtp)),
             us[tk[ticket_id].user_id].has_email, {"client", "admin", "project_manager"})

\* the outcome of an operation: its check, its UPDATE, its notifications
Operation(accepted, updated, tk, sent) ==
    IF ~accepted
    THEN [accepted |-> FALSE, tickets |-> tk, email_attempted |-> FALSE, notified |-> {},
          raised |-> FALSE, result |-> FALSE]
    ELSE [accepted |-> TRUE, tickets |-> updated, email_attempted |-> sent.email_attempted,
          notified |-> sent.notified, raised |-> sent.raised, result |-> ~sent.raised]

assign_ticket_to_developer(us, tk, ticket_id, developer_id, assigned_by, notes, smtp, db_ok) ==
    Operation(assign_ticket_to_developer_check(us, tk, ticket_id, developer_id),
              assign_ticket_to_developer_update(tk, ticket_id, developer_id, notes), tk,
              notify_ticket_assigned(us, assign_ticket_to_developer_update(tk, ticket_id, developer_id, notes),
                                     ticket_id, developer_id, assigned_by, smtp, db_ok))

complete_ticket_by_developer(us, tk, ticket_id, developer_id, completion_notes, smtp, db_ok) ==
    Operation(complete_ticket_by_developer_check(tk, ticket_id, developer_id),
              complete_ticket_by_developer_update(tk, ticket_id, completion_notes), tk,
              notify_ticket_completed(us, tk, ticket_id, developer_id, smtp, db_ok))

pass_ticket_by_developer(us, tk, ticket_id, developer_id, reason, smtp) ==
    Operation(pass_ticket_by_developer_check(us, tk, ticket_id, developer_id),
              pass_ticket_by_developer_update(tk, ticket_id, reason), tk,
              pass_ticket_notifications(us, smtp))

cancel_ticket_by_developer(us, tk, ticket_id, developer_id, reason, smtp) ==
    Operation(cancel_ticket_by_developer_check(us, tk, ticket_id, developer_id),
              cancel_ticket_by_developer_update(tk, ticket_id, reason), tk,
              cancel_ticket_notifications(us, tk, ticket_id, smtp))

\* a ticket operation from its first SELECT to its return
OperationCall(fn, ticket_id, developer_id, smtp, outcome) ==
    /\ opCall = NoOpCall
    /\ visible = NoQuery
    /\ nCalls < MaxCalls
    /\ nCalls' = nCalls + 1
    /\ tickets' = outcome.tickets
    /\ opCall' = [fn |-> fn, ticket_id |-> ticket_id, developer_id |-> developer_id,
                  smtp |-> smtp, accepted |-> outcome.accepted,
                  email_attempted |-> outcome.email_attempted, notified |-> outcome.notified,
                  raised |-> outcome.raised, result |-> outcome.result]
    /\ UNCHANGED <<users, assignments, visible, pc, req, response, authVars, kbVars, chatVars,
                   settingsVars, accountVars>>

OperationTicketArgs == 1..MaxTickets

NotifyCreateTicket ==
    /\ opCall = NoOpCall
    /\ CreateTicketByClient

NotifyAssignTicket ==
    \E t \in OperationTicketArgs, d \in Developers, by \in Admins \cup ProjectManagers,
       n \in {<<"see", "log">>}, smtp \in SmtpOutcomes, db_ok \in BOOLEAN :
        OperationCall("assign_ticket_to_developer", t, d, smtp,
                      assign_ticket_to_developer(users, tickets, t, d, by, n, smtp, db_ok))

NotifyCompleteTicket ==
    \E t \in OperationTicketArgs, d \in Developers, n \in CompletionInputs,
       smtp \in SmtpOutcomes, db_ok \in BOOLEAN :
        OperationCall("complete_ticket_by_developer", t, d, smtp,
                      complete_ticket_by_developer(users, tickets, t, d, n, smtp, db_ok))

NotifyPassTicket ==
    \E t \in OperationTicketArgs, d \in Developers, r \in ReasonInputs, smtp \in SmtpOutcomes :
        OperationCall("pass_ticket_by_developer", t, d, smtp,
                      pass_ticket_by_developer(users, tickets, t, d, r, smtp))

NotifyCancelTicket ==
    \E t \in OperationTicketArgs, d \in Developers, r \in ReasonInputs, smtp \in SmtpOutcomes :
        OperationCall("cancel_ticket_by_developer", t, d, smtp,
                      cancel_ticket_by_developer(users, tickets, t, d, r, smtp))

OperationReturns ==
    /\ opCall # NoOpCall
    /\ opCall' = NoOpCall
    /\ UNCHANGED <<users, tickets, assignments, visible, pc, req, nCalls, response,
                   authVars, kbVars, chatVars, settingsVars, accountVars>>

NextNotify ==
    \/ NotifyCreateTicket
    \/ NotifyAssignTicket
    \/ NotifyCompleteTicket
    \/ NotifyPassTicket
    \/ NotifyCancelTicket
    \/ OperationReturns

SpecNotify == Init /\ [][NextNotify]_vars

(***************************************************************************)
(* rbac_middleware.py: the decorators that wrap the handlers of            *)
(* backend/main.py.  Each yields the status it raises, or 200 when the     *)
(* wrapped function is called.                                             *)
(***************************************************************************)
\* variant: any authenticated user passes, as in permission_required
role_required_any_authenticated(allowed_roles, user) ==
    IF user = NoUser THEN 401
    ELSE 200

role_required(allowed_roles, user) ==
    IF user = NoUser THEN 401
    ELSE IF user.role \notin allowed_roles THEN 403
    ELSE 200

resource_access_required(resource_type, user) ==
    IF user = NoUser THEN 401
    ELSE 200

admin_required(user) == role_required({"admin"}, user)

developer_required(user) == role_required({"developer"}, user)

(***************************************************************************)
(* backend/main.py: handlers.  A handler runs in a request slot; every     *)
(* statement that writes is a step of its own, so that handlers of         *)
(* concurrent requests interleave between statements.                      *)
(***************************************************************************)
\* the current_user a request arrives with: the id and role of a token, or
\* no user at all
Callers == {[id |-> u, role |-> InitUsers[u].role] : u \in UserIds} \cup {NoUser}

\* ticket ids a request may name: the existing ones and one that does not exist
TicketArgs == 1..(Len(tickets) + 1)

\* developer_id of an assignment request: a developer, a user who is not a
\* developer, or a missing value
DeveloperArgs == Developers \cup {1, NULL}

QueryInputs == {<<>>, <<"vpn", "down">>}

\* TicketCreateRequest.priority is stored as it arrives
RequestPriorityInputs == {"MEDIUM"}

NoResponsePending == \A p \in Procs : pc[p] # "done"

RequestArrives(p) ==
    /\ pc[p] = "idle"
    /\ NoResponsePending
    /\ visible = NoQuery
    /\ nCalls < MaxRequests
    /\ nCalls' = nCalls + 1
    /\ UNCHANGED <<users, visible, response, authVars, serviceVars>>

Request(handler, user, ticket_id, developer_id) ==
    [handler |-> handler, user |-> user, ticket_id |-> ticket_id,
     developer_id |-> developer_id, status |-> "", text |-> <<>>,
     code |-> 0, ran |-> FALSE]

\* the request is answered with the status code
Respond(p, r, code, ran) ==
    /\ pc' = [pc EXCEPT ![p] = "done"]
    /\ req' = [req EXCEPT ![p] = [r EXCEPT !.code = code, !.ran = ran]]

\* the handler goes on to its next statement
Goto(p, r, label) ==
    /\ pc' = [pc EXCEPT ![p] = label]
    /\ req' = [req EXCEPT ![p] = [r EXCEPT !.ran = TRUE]]

At(p, label) ==
    /\ pc[p] = label
    /\ NoResponsePending
    /\ UNCHANGED <<users, visible, nCalls, response, authVars, serviceVars>>

\* the client has received the response
ResponseDelivered(p) ==
    /\ pc[p] = "done"
    /\ pc' = [pc EXCEPT ![p] = "idle"]
    /\ req' = [req EXCEPT ![p] = NoRequest]
    /\ UNCHANGED <<users, tickets, assignments, visible, nCalls, response, authVars, serviceVars>>

NewAssignment(ticket_id, developer_id) ==
    [ticket_id |-> ticket_id, developer_id |-> developer_id, is_active |-> TRUE]

HasActiveAssignment(asg, ticket_id) ==
    \E i \in DOMAIN asg : asg[i].ticket_id = ticket_id /\ asg[i].is_active

IsActiveAssignee(asg, ticket_id, developer_id) ==
    \E i \in DOMAIN asg : /\ asg[i].ticket_id = ticket_id
                          /\ asg[i].developer_id = developer_id
                          /\ asg[i].is_active

\* UPDATE ticket_assignments SET is_active = FALSE WHERE ticket_id = %s
DeactivateAll(asg, ticket_id) ==
    [i \in DOMAIN asg |->
        IF asg[i].ticket_id = ticket_id
        THEN [asg[i] EXCEPT !.is_active = FALSE] ELSE asg[i]]

\* ... WHERE ticket_id = %s AND developer_id = %s AND is_active = TRUE
DeactivateOwn(asg, ticket_id, developer_id) ==
    [i \in DOMAIN asg |->
        IF asg[i].ticket_id = ticket_id /\ asg[i].developer_id = developer_id
        THEN [asg[i] EXCEPT !.is_active = FALSE] ELSE asg[i]]

SetStatus(tk, ticket_id, status) ==
    IF ticket_id \in TicketIds(tk)
    THEN [tk EXCEPT ![ticket_id].status = status] ELSE tk

SetStatusAndReply(tk, ticket_id, status, reply) ==
    IF ticket_id \in TicketIds(tk)
    THEN [tk EXCEPT ![ticket_id].status = status, ![ticket_id].reply = reply] ELSE tk

\* database.close_ticket
close_ticket(tk, ticket_id, reply) == SetStatusAndReply(tk, ticket_id, "CLOSED", reply)

\* a decorator refused the request: the handler body does not run and the
\* arguments are never looked at
Refused(p, handler, user, code) ==
    /\ Respond(p, Request(handler, user, 0, 0), code, FALSE)
    /\ UNCHANGED <<tickets, assignments>>

\* POST /client/tickets/create
create_client_ticket(p) ==
    \E user \in Callers :
        LET gate == role_required({"client"}, user)
        IN /\ RequestArrives(p)
           /\ IF gate # 200 THEN Refused(p, "create_client_ticket", user, gate)
              ELSE \E q \in QueryInputs, prio \in RequestPriorityInputs :
                     LET r == Request("create_client_ticket", user, 0, 0)
                     IN IF q = <<>>
                        THEN Respond(p, r, 400, TRUE) /\ UNCHANGED <<tickets, assignments>>
                        ELSE /\ Len(tickets) < MaxTickets
                             /\ tickets' = Append(tickets, NewTicket(user.id, prio))
                             /\ Respond(p, [r EXCEPT !.ticket_id = Len(tickets) + 1], 200, TRUE)
                             /\ UNCHANGED assignments

\* POST /ticket/{ticket_id}/reply
reply_ticket(p) ==
    \E user \in Callers :
        LET gate == developer_required(user)
            access == resource_access_required("ticket", user)
        IN /\ RequestArrives(p)
           /\ IF gate # 200 THEN Refused(p, "reply_ticket", user, gate)
              ELSE IF access # 200 THEN Refused(p, "reply_ticket", user, access)
              ELSE \E t \in TicketArgs, reply \in CompletionInputs :
                     /\ tickets' = close_ticket(tickets, t, reply)
                     /\ Respond(p, [Request("reply_ticket", user, t, 0) EXCEPT !.text = reply],
                                200, TRUE)
                     /\ UNCHANGED assignments

\* POST /admin/tickets/{ticket_id}/assign and POST /pm/tickets/{ticket_id}/assign
\* share their body: the checks of the request, of the ticket and of the developer
assign_ticket_arrives(p, handler, gate, user) ==
    /\ RequestArrives(p)
    /\ IF gate # 200 THEN Refused(p, handler, user, gate)
       ELSE \E t \in TicketArgs, d \in DeveloperArgs :
              LET r == Request(handler, user, t, d)
              IN /\ UNCHANGED <<tickets, assignments>>
                 /\ IF d = NULL THEN Respond(p, r, 400, TRUE)
                    ELSE IF t \notin TicketIds(tickets) THEN Respond(p, r, 404, TRUE)
                    ELSE IF ~(d \in DOMAIN users /\ users[d].role = "developer")
                    THEN Respond(p, r, 404, TRUE)
                    ELSE Goto(p, r, "assign_deactivate")

assign_ticket_as_admin(p) ==
    \E user \in Callers :
        assign_ticket_arrives(p, "assign_ticket_as_admin", admin_required(user), user)

assign_ticket_as_pm(p) ==
    \E user \in Callers :
        assign_ticket_arrives(p, "assign_ticket_as_pm",
                              role_required({"project_manager"}, user), user)

\* "Deactivate any existing assignments"
assign_ticket_deactivate(p) ==
    /\ At(p, "assign_deactivate")
    /\ assignments' = DeactivateAll(assignments, req[p].ticket_id)
    /\ pc' = [pc EXCEPT ![p] = "assign_insert"]
    /\ UNCHANGED <<tickets, req>>

\* "Create new assignment"
assign_ticket_insert(p) ==
    /\ At(p, "assign_insert")
    /\ assignments' = Append(assignments, NewAssignment(req[p].ticket_id, req[p].developer_id))
    /\ pc' = [pc EXCEPT ![p] = "assign_status"]
    /\ UNCHANGED <<tickets, req>>

\* "Update ticket status"
assign_ticket_status(p) ==
    /\ At(p, "assign_status")
    /\ tickets' = SetStatus(tickets, req[p].ticket_id, "IN_PROGRESS")
    /\ Respond(p, req[p], 200, TRUE)
    /\ UNCHANGED assignments

\* POST /developer/tickets/{ticket_id}/self-assign
self_assign_ticket(p) ==
    \E user \in Callers :
        LET gate == role_required({"developer"}, user)
        IN /\ RequestArrives(p)
           /\ IF gate # 200 THEN Refused(p, "self_assign_ticket", user, gate)
              ELSE \E t \in TicketArgs :
                     LET r == Request("self_assign_ticket", user, t, user.id)
                     IN /\ UNCHANGED <<tickets, assignments>>
                        /\ IF ~(/\ t \in TicketIds(tickets)
                                /\ tickets[t].status = "OPEN"
                                /\ ~HasActiveAssignment(assignments, t))
                           THEN Respond(p, r, 404, TRUE)
                           ELSE Goto(p, r, "self_insert")

\* "Create assignment"
self_assign_ticket_insert(p) ==
    /\ At(p, "self_insert")
    /\ assignments' = Append(assignments, NewAssignment(req[p].ticket_id, req[p].developer_id))
    /\ pc' = [pc EXCEPT ![p] = "self_status"]
    /\ UNCHANGED <<tickets, req>>

\* "Update ticket status"
self_assign_ticket_status(p) ==
    /\ At(p, "self_status")
    /\ tickets' = SetStatus(tickets, req[p].ticket_id, "IN_PROGRESS")
    /\ Respond(p, req[p], 200, TRUE)
    /\ UNCHANGED assignments

\* POST /developer/tickets/{ticket_id}/complete
complete_ticket(p) ==
    \E user \in Callers :
        LET gate == role_required({"developer"}, user)
        IN /\ RequestArrives(p)
           /\ IF gate # 200 THEN Refused(p, "complete_ticket", user, gate)
              ELSE \E t \in TicketArgs, notes \in StatusNoteInputs :
                     LET r == [Request("complete_ticket", user, t, user.id) EXCEPT !.text = notes]
                     IN /\ UNCHANGED <<tickets, assignments>>
                        /\ IF ~IsActiveAssignee(assignments, t, user.id)
                           THEN Respond(p, r, 403, TRUE)
                           ELSE Goto(p, r, "complete_update")

\* "Update ticket status and add completion notes"
complete_ticket_update(p) ==
    /\ At(p, "complete_update")
    /\ tickets' = SetStatusAndReply(tickets, req[p].ticket_id, "CLOSED", req[p].text)
    /\ Respond(p, req[p], 200, TRUE)
    /\ UNCHANGED assignments

\* rows of "SELECT email FROM users WHERE role IN ('admin', 'project_manager')
\* AND email IS NOT NULL AND email != ''"
AdminEmailRows(us) ==
    {u \in DOMAIN us : us[u].role \in {"admin", "project_manager"} /\ us[u].has_email}

\* the cursor returns dictionaries: row[0] raises KeyError as soon as there
\* is a row, and the request ends with status 500
pass_ticket_response(us) == IF AdminEmailRows(us) # {} THEN 500 ELSE 200

\* POST /developer/tickets/{ticket_id}/pass
pass_ticket(p) ==
    \E user \in Callers :
        LET gate == role_required({"developer"}, user)
        IN /\ RequestArrives(p)
           /\ IF gate # 200 THEN Refused(p, "pass_ticket", user, gate)
              ELSE \E t \in TicketArgs, reason \in ReasonInputs :
                     LET r == [Request("pass_ticket", user, t, user.id) EXCEPT !.text = reason]
                     IN /\ UNCHANGED <<tickets, assignments>>
                        /\ IF ~(/\ IsActiveAssignee(assignments, t, user.id)
                                /\ user.id \in DOMAIN users)
                           THEN Respond(p, r, 403, TRUE)
                           ELSE Goto(p, r, "pass_deactivate")

\* "Deactivate current assignment"
pass_ticket_deactivate(p) ==
    /\ At(p, "pass_deactivate")
    /\ assignments' = DeactivateOwn(assignments, req[p].ticket_id, req[p].developer_id)
    /\ pc' = [pc EXCEPT ![p] = "pass_status"]
    /\ UNCHANGED <<tickets, req>>

\* "Update ticket status back to OPEN for reassignment", then the
\* notifications and the e-mails
pass_ticket_status(p) ==
    /\ At(p, "pass_status")
    /\ tickets' = SetStatus(tickets, req[p].ticket_id, "OPEN")
    /\ Respond(p, req[p], pass_ticket_response(users), TRUE)
    /\ UNCHANGED assignments

\* ticket_info is a dictionary: ticket_info[1] raises KeyError once the
\* ticket has been updated, and the request ends with status 500
cancel_ticket_response == 500

\* POST /developer/tickets/{ticket_id}/cancel
cancel_ticket(p) ==
    \E user \in Callers :
        LET gate == role_required({"developer"}, user)
        IN /\ RequestArrives(p)
           /\ IF gate # 200 THEN Refused(p, "cancel_ticket", user, gate)
              ELSE \E t \in TicketArgs, reason \in ReasonInputs :
                     LET r == [Request("cancel_ticket", user, t, user.id) EXCEPT !.text = reason]
                     IN /\ UNCHANGED <<tickets, assignments>>
                        /\ IF ~(/\ IsActiveAssignee(assignments, t, user.id)
                                /\ t \in TicketIds(tickets)
                                /\ tickets[t].user_id \in DOMAIN users
                                /\ user.id \in DOMAIN users)
                           THEN Respond(p, r, 403, TRUE)
                           ELSE Goto(p, r, "cancel_update")

\* "Update ticket status to CLOSED with cancellation reason", then the
\* notification to the client
cancel_ticket_update(p) ==
    /\ At(p, "cancel_update")
    /\ tickets' = SetStatusAndReply(tickets, req[p].ticket_id, "CLOSED",
                                    <<"Ticket canceled by developer:">> \o req[p].text)
    /\ Respond(p, req[p], cancel_ticket_response, TRUE)
    /\ UNCHANGED assignments

\* str.strip() on a text of word tokens: blank tokens fall away
Strip(text) == SelectSeq(text, LAMBDA w : w # " ")

\* PUT /developer/tickets/{ticket_id}/status
update_ticket_status(p) ==
    \E user \in Callers :
        LET gate == role_required({"developer"}, user)
        IN /\ RequestArrives(p)
           /\ IF gate # 200 THEN Refused(p, "update_ticket_status", user, gate)
              ELSE \E t \in TicketArgs, st \in StatusInputs, notes \in StatusNoteInputs :
                     LET r == [Request("update_ticket_status", user, t, user.id)
                                  EXCEPT !.status = st, !.text = notes]
                     IN /\ UNCHANGED <<tickets, assignments>>
                        /\ IF ~IsActiveAssignee(assignments, t, user.id)
                           THEN Respond(p, r, 403, TRUE)
                           ELSE IF st \notin {"IN_PROGRESS", "CLOSED"}
                           THEN Respond(p, r, 400, TRUE)
                           ELSE IF st = "CLOSED" /\ Strip(notes) = <<>>
                           THEN Respond(p, r, 400, TRUE)
                           ELSE Goto(p, r, "status_update")

\* "Update ticket status"
update_ticket_status_update(p) ==
    /\ At(p, "status_update")
    /\ tickets' = IF req[p].status = "CLOSED"
                  THEN SetStatusAndReply(tickets, req[p].ticket_id, req[p].status, req[p].text)
                  ELSE SetStatus(tickets, req[p].ticket_id, req[p].status)
    /\ Respond(p, req[p], 200, TRUE)
    /\ UNCHANGED assignments

NextMain ==
    \E p \in Procs :
        \/ create_client_ticket(p)
        \/ reply_ticket(p)
        \/ assign_ticket_as_admin(p)
        \/ assign_ticket_as_pm(p)
        \/ assign_ticket_deactivate(p)
        \/ assign_ticket_insert(p)
        \/ assign_ticket_status(p)
        \/ self_assign_ticket(p)
        \/ self_assign_ticket_insert(p)
        \/ self_assign_ticket_status(p)
        \/ complete_ticket(p)
        \/ complete_ticket_update(p)
        \/ pass_ticket(p)
        \/ pass_ticket_deactivate(p)
        \/ pass_ticket_status(p)
        \/ cancel_ticket(p)
        \/ cancel_ticket_update(p)
        \/ update_ticket_status(p)
        \/ update_ticket_status_update(p)
        \/ ResponseDelivered(p)

SpecMain == Init /\ [][NextMain]_vars

(***************************************************************************)
(* backend/app/main.py over backend/app/database.py.  Every Database       *)
(* method used here is a single statement on the tickets table, so a       *)
(* request is one step; its response stays in `response` until delivered.  *)
(***************************************************************************)
\* the dependency require_role(*roles) on top of get_current_user
require_role(roles, user) ==
    IF user = NoUser THEN 401
    ELSE IF user.role \notin roles THEN 403
    ELSE 200

\* get_current_user alone: any valid token
get_current_user(user) == IF user = NoUser THEN 401 ELSE 200

\* Database.get_ticket: the row, or nothing
get_ticket_row(tk, ticket_id) ==
    IF ticket_id \in TicketIds(tk) THEN <<Row(tk, ticket_id)>> ELSE <<>>

\* Database.get_user_tickets
get_user_tickets(tk, user_id) ==
    SelectSeq(RowsNewestFirst(tk), LAMBDA r : r.user_id = user_id)

\* Database.assign_ticket; its best-effort INSERT into ticket_assignments is
\* read by no handler of this application
assign_ticket(tk, ticket_id, developer_id) ==
    IF ticket_id \in TicketIds(tk)
    THEN [tk EXCEPT ![ticket_id].assigned_to = developer_id,
                    ![ticket_id].status = "IN_PROGRESS"]
    ELSE tk

AppRequestArrives ==
    /\ response = NoResponse
    /\ UNCHANGED <<users, assignments, visible, pc, req, authVars, serviceVars>>

Answer(handler, user, ticket_id, code, rows) ==
    response' = [handler |-> handler, user |-> user, ticket_id |-> ticket_id,
                 code |-> code, tickets |-> rows]

\* Database.create_ticket, called by POST /chat with the caller's id
AppCreateTicket ==
    \E user \in Callers, prio \in RequestPriorityInputs :
        LET gate == require_role({"client"}, user)
        IN /\ AppRequestArrives
           /\ nCalls < MaxCalls
           /\ nCalls' = nCalls + 1
           /\ IF gate # 200
              THEN Answer("chat", user, 0, gate, <<>>) /\ UNCHANGED tickets
              ELSE /\ Len(tickets) < MaxTickets
                   /\ tickets' = Append(tickets, NewTicket(user.id, prio))
                   /\ Answer("chat", user, Len(tickets) + 1, 200, <<>>)

\* POST /ticket/{ticket_id}/assign
AppAssignTicket ==
    \E user \in Callers, t \in TicketArgs, d \in Developers :
        LET gate == require_role({"admin", "project_manager"}, user)
        IN /\ AppRequestArrives
           /\ nCalls < MaxCalls
           /\ nCalls' = nCalls + 1
           /\ IF gate # 200
              THEN Answer("assign_ticket", user, t, gate, <<>>) /\ UNCHANGED tickets
              ELSE /\ tickets' = assign_ticket(tickets, t, d)
                   /\ Answer("assign_ticket", user, t, 200, <<>>)

\* POST /ticket/{ticket_id}/reply
AppReplyTicket ==
    \E user \in Callers, t \in TicketArgs, reply \in CompletionInputs :
        LET gate == require_role({"developer", "admin"}, user)
        IN /\ AppRequestArrives
           /\ nCalls < MaxCalls
           /\ nCalls' = nCalls + 1
           /\ IF gate # 200
              THEN Answer("reply_ticket", user, t, gate, <<>>) /\ UNCHANGED tickets
              ELSE /\ tickets' = close_ticket(tickets, t, reply)
                   /\ Answer("reply_ticket", user, t, 200, <<>>)

\* GET /client/tickets
get_client_tickets ==
    \E user \in Callers :
        LET gate == require_role({"client"}, user)
        IN /\ AppRequestArrives
           /\ UNCHANGED <<tickets, nCalls>>
           /\ IF gate # 200
              THEN Answer("get_client_tickets", user, 0, gate, <<>>)
              ELSE Answer("get_client_tickets", user, 0, 200,
                          get_user_tickets(tickets, user.id))

\* GET /client/tickets/{ticket_id}
get_client_ticket_details ==
    \E user \in Callers, t \in TicketArgs :
        LET gate == require_role({"client"}, user)
            ticket == get_ticket_row(tickets, t)
        IN /\ AppRequestArrives
           /\ UNCHANGED <<tickets, nCalls>>
           /\ IF gate # 200
              THEN Answer("get_client_ticket_details", user, t, gate, <<>>)
              ELSE IF ticket = <<>> \/ ticket[1].user_id # user.id
              THEN Answer("get_client_ticket_details", user, t, 404, <<>>)
              ELSE Answer("get_client_ticket_details", user, t, 200, ticket)

\* GET /ticket/{ticket_id}
get_ticket ==
    \E user \in Callers, t \in TicketArgs :
        LET gate == get_current_user(user)
            ticket == get_ticket_row(tickets, t)
        IN /\ AppRequestArrives
           /\ UNCHANGED <<tickets, nCalls>>
           /\ IF gate # 200
              THEN Answer("get_ticket", user, t, gate, <<>>)
              ELSE IF ticket = <<>>
              THEN Answer("get_ticket", user, t, 404, <<>>)
              ELSE Answer("get_ticket", user, t, 200, ticket)

AppResponseDelivered ==
    /\ response # NoResponse
    /\ response' = NoResponse
    /\ UNCHANGED <<users, tickets, assignments, visible, pc, req, nCalls, authVars, serviceVars>>

NextApp ==
    \/ AppCreateTicket
    \/ AppAssignTicket
    \/ AppReplyTicket
    \/ get_client_tickets
    \/ get_client_ticket_details
    \/ get_ticket
    \/ AppResponseDelivered

SpecApp == Init /\ [][NextApp]_vars

(***************************************************************************)
(* backend/enhanced_rbac_main.py: /login and get_user, with the user       *)
(* management of enhanced_rbac_database.py and revoke_token of auth.py.    *)
(* A token is its payload together with the key that signed it.            *)
(***************************************************************************)
\* JWT_SECRET of enhanced_rbac_main.py
JWT_SECRET == "supersecretkey"

jwt_encode(payload, key) == [payload |-> payload, sig |-> key]

\* jwt.decode: the payload when the signature verifies, NoUser when it raises
jwt_decode(token, key) == IF token.sig = key THEN token.payload ELSE NoUser

\* what a client may send as Authorization: nothing, a token it was given,
\* or a token signed with a key of its own
ForgedTokens == {jwt_encode([id |-> 6, role |-> "admin"], "guess")}

\* variant: the SELECT does not look at is_active
authenticate_user_any_status(us, user_id, password_ok) ==
    IF user_id \in DOMAIN us /\ password_ok
    THEN [id |-> user_id, role |-> us[user_id].role]
    ELSE NoUser

\* authenticate_user: the row for the right password of an active user
authenticate_user(us, user_id, password_ok) ==
    IF user_id \in DOMAIN us /\ password_ok /\ us[user_id].is_active
    THEN [id |-> user_id, role |-> us[user_id].role]
    ELSE NoUser

\* variant: get_user consults a revocation list and the users table
get_user_checks_revocation(authorization) ==
    IF authorization = NoToken THEN [code |-> 401, user |-> NoUser]
    ELSE IF jwt_decode(authorization, JWT_SECRET) = NoUser
    THEN [code |-> 401, user |-> NoUser]
    ELSE IF \/ authorization \in revokeCalls
            \/ ~users[jwt_decode(authorization, JWT_SECRET).id].is_active
    THEN [code |-> 401, user |-> NoUser]
    ELSE [code |-> 200, user |-> jwt_decode(authorization, JWT_SECRET)]

\* get_user: 401 without a header or when decoding raises, else the payload
get_user(authorization) ==
    IF authorization = NoToken THEN [code |-> 401, user |-> NoUser]
    ELSE IF jwt_decode(authorization, JWT_SECRET) = NoUser
    THEN [code |-> 401, user |-> NoUser]
    ELSE [code |-> 200, user |-> jwt_decode(authorization, JWT_SECRET)]

\* user ids a call may name: the existing ones and one that does not exist
UserArgs == 1..(Cardinality(UserIds) + 1)

\* who asks: an admin, or the user the call is about
AdminArgs(user_id) == Admins \cup ({user_id} \cap UserIds)

Call(fn, user_id, admin_id, password_ok, result) ==
    [fn |-> fn, user_id |-> user_id, admin_id |-> admin_id,
     password_ok |-> password_ok, result |-> result]

AuthCallStarts ==
    /\ session = NoSession
    /\ userCall = NoCall
    /\ nCalls < MaxCalls
    /\ nCalls' = nCalls + 1
    /\ UNCHANGED <<tickets, assignments, visible, pc, req, response, serviceVars>>

\* POST /login
login ==
    \E u \in UserIds, password_ok \in BOOLEAN :
        LET user == authenticate_user(users, u, password_ok)
        IN /\ AuthCallStarts
           /\ issued' = IF user = NoUser THEN issued
                        ELSE issued \cup {[token |-> jwt_encode(user, JWT_SECRET),
                                           id |-> user.id, role |-> user.role]}
           /\ userCall' = Call("authenticate_user", u, 0, password_ok, user # NoUser)
           /\ UNCHANGED <<users, revokeCalls, session>>

\* auth.revoke_token: returns None and keeps nothing
revoke_token ==
    \E i \in issued :
        /\ AuthCallStarts
        /\ i.token \notin revokeCalls
        /\ revokeCalls' = revokeCalls \cup {i.token}
        /\ UNCHANGED <<users, issued, session, userCall>>

\* the functions on users.is_active: what they return and the table they leave
deactivate_user_result(us, user_id, admin_id) ==
    IF user_id = admin_id THEN [ok |-> FALSE, users |-> us]
    ELSE IF user_id \notin DOMAIN us THEN [ok |-> FALSE, users |-> us]
    ELSE [ok |-> TRUE, users |-> [us EXCEPT ![user_id].is_active = FALSE]]

activate_user_result(us, user_id, admin_id) ==
    IF user_id \notin DOMAIN us THEN [ok |-> FALSE, users |-> us]
    ELSE [ok |-> TRUE, users |-> [us EXCEPT ![user_id].is_active = TRUE]]

\* variant: the status is toggled whoever asks
toggle_user_status_no_self_check(us, user_id, admin_id) ==
    IF user_id \notin DOMAIN us THEN [ok |-> FALSE, users |-> us]
    ELSE [ok |-> TRUE, users |-> [us EXCEPT ![user_id].is_active = ~us[user_id].is_active]]

toggle_user_status_result(us, user_id, admin_id) ==
    IF user_id \notin DOMAIN us THEN [ok |-> FALSE, users |-> us]
    ELSE IF user_id = admin_id THEN [ok |-> FALSE, users |-> us]
    ELSE [ok |-> TRUE, users |-> [us EXCEPT ![user_id].is_active = ~us[user_id].is_active]]

\* the SELECT finds the user only WHERE is_active=FALSE
approve_user_by_admin_result(us, user_id, admin_id) ==
    IF ~(user_id \in DOMAIN us /\ ~us[user_id].is_active) THEN [ok |-> FALSE, users |-> us]
    ELSE [ok |-> TRUE, users |-> [us EXCEPT ![user_id].is_active = TRUE]]

UserCall(fn, outcome, user_id, admin_id) ==
    /\ AuthCallStarts
    /\ users' = outcome.users
    /\ userCall' = Call(fn, user_id, admin_id, FALSE, outcome.ok)
    /\ UNCHANGED <<issued, revokeCalls, session>>

deactivate_user ==
    \E user_id \in UserArgs : \E admin_id \in AdminArgs(user_id) :
        UserCall("deactivate_user", deactivate_user_result(users, user_id, admin_id),
                 user_id, admin_id)

activate_user ==
    \E user_id \in UserArgs : \E admin_id \in AdminArgs(user_id) :
        UserCall("activate_user", activate_user_result(users, user_id, admin_id),
                 user_id, admin_id)

toggle_user_status ==
    \E user_id \in UserArgs : \E admin_id \in AdminArgs(user_id) :
        UserCall("toggle_user_status", toggle_user_status_result(users, user_id, admin_id),
                 user_id, admin_id)

approve_user_by_admin ==
    \E user_id \in UserArgs : \E admin_id \in AdminArgs(user_id) :
        UserCall("approve_user_by_admin", approve_user_by_admin_result(users, user_id, admin_id),
                 user_id, admin_id)

UserCallReturns ==
    /\ userCall # NoCall
    /\ userCall' = NoCall
    /\ UNCHANGED <<users, tickets, assignments, visible, pc, req, nCalls,
                   response, issued, revokeCalls, session, serviceVars>>

\* a request to an endpoint that depends on get_user
GetUser ==
    \E authorization \in {i.token : i \in issued} \cup ForgedTokens \cup {NoToken} :
        /\ session = NoSession
        /\ userCall = NoCall
        /\ session' = [authorization |-> authorization,
                       code |-> get_user(authorization).code,
                       user |-> get_user(authorization).user]
        /\ UNCHANGED <<users, tickets, assignments, visible, pc, req, nCalls,
                       response, issued, revokeCalls, userCall, serviceVars>>

GetUserReturns ==
    /\ session # NoSession
    /\ session' = NoSession
    /\ UNCHANGED <<users, tickets, assignments, visible, pc, req, nCalls,
                   response, issued, revokeCalls, userCall, serviceVars>>

NextAuth ==
    \/ login
    \/ revoke_token
    \/ deactivate_user
    \/ activate_user
    \/ toggle_user_status
    \/ approve_user_by_admin
    \/ UserCallReturns
    \/ GetUser
    \/ GetUserReturns

SpecAuth == Init /\ [][NextAuth]_vars

(***************************************************************************)
(* backend/app/ai_engine.py: AIEngine.get_response.  A text is the         *)
(* sequence of its characters.                                             *)
(***************************************************************************)
QueryAlphabet == {"a", "b", "B", " "}

\* str.lower(), character by character
LowerChar(c) ==
    CASE c = "A" -> "a"
      [] c = "B" -> "b"
      [] c = "G" -> "g"
      [] c = "U" -> "u"
      [] c = "Y" -> "y"
      [] OTHER -> c

StrLower(text) == [i \in DOMAIN text |-> LowerChar(text[i])]

\* Python's `k in q` on strings
IsSubstring(k, q) ==
    \E i \in 0..(Len(q) - Len(k)) : SubSeq(q, i + 1, i + Len(k)) = k

\* str.strip(): leading and trailing blanks fall away
RECURSIVE StripLeft(_)
StripLeft(text) ==
    IF text # <<>> /\ Head(text) = " " THEN StripLeft(Tail(text)) ELSE text

RECURSIVE StripRight(_)
StripRight(text) ==
    IF text # <<>> /\ text[Len(text)] = " "
    THEN StripRight(SubSeq(text, 1, Len(text) - 1)) ELSE text

StripText(text) == StripRight(StripLeft(text))

\* str.split(","): the pieces between the commas, the piece read so far in `piece`
RECURSIVE SplitComma(_, _)
SplitComma(text, piece) ==
    IF text = <<>> THEN <<piece>>
    ELSE IF Head(text) = "," THEN <<piece>> \o SplitComma(Tail(text), <<>>)
    ELSE SplitComma(Tail(text), Append(piece, Head(text)))

\* "Handle both list and string keywords"
Keywords(entry) ==
    IF entry.is_str
    THEN [i \in DOMAIN SplitComma(entry.text, <<>>) |->
             StripText(SplitComma(entry.text, <<>>)[i])]
    ELSE entry.list

SomeAnswer == <<"o", "k">>

ListEntry(list) == [is_str |-> FALSE, list |-> list, text |-> <<>>, answer |-> SomeAnswer]

TextEntry(text) == [is_str |-> TRUE, list |-> <<>>, text |-> text, answer |-> SomeAnswer]

\* an entry saved with an empty answer
EmptyAnswerEntry(list) == [ListEntry(list) EXCEPT !.answer = <<>>]

\* entries the file may hold
KbEntries ==
    {ListEntry(<<<<"a">>>>),
     ListEntry(<<<<"B">>>>),
     ListEntry(<<<<"a", "b">>, <<"b">>>>),
     ListEntry(<<<<>>>>),
     TextEntry(<<"a", ",", " ", "b">>)}

RECURSIVE SeqsUpTo(_, _)
SeqsUpTo(S, n) ==
    IF n = 0 THEN {<<>>}
    ELSE SeqsUpTo(S, n - 1) \cup {Append(q, x) : q \in SeqsUpTo(S, n - 1), x \in S}

KnowledgeBases == SeqsUpTo(KbEntries, MaxEntries)

Queries == SeqsUpTo(QueryAlphabet, MaxQueryLen)

\* variant: no bonus for an exact word match
KeywordScore_no_bonus(keyword, query_lower) ==
    IF IsSubstring(StrLower(keyword), query_lower)
    THEN 2 * Len(keyword)
    ELSE 0

\* what one keyword adds to the score of its entry
KeywordScore(keyword, query_lower) ==
    IF IsSubstring(StrLower(keyword), query_lower)
    THEN 2 * Len(keyword)
         + (IF IsSubstring(<<" ">> \o StrLower(keyword) \o <<" ">>,
                           <<" ">> \o query_lower \o <<" ">>)
            THEN 5 ELSE 0)
    ELSE 0

RECURSIVE SumScores(_, _)
SumScores(keywords, query_lower) ==
    IF keywords = <<>> THEN 0
    ELSE KeywordScore(Head(keywords), query_lower) + SumScores(Tail(keywords), query_lower)

EntryScore(entry, query_lower) == SumScores(Keywords(entry), query_lower)

\* the loop over self.knowledge_base, from entry i on
RECURSIVE BestMatch(_, _, _, _, _)
BestMatch(kb, query_lower, i, best_match, max_score) ==
    IF i > Len(kb) THEN [best_match |-> best_match, max_score |-> max_score]
    ELSE IF EntryScore(kb[i], query_lower) > max_score
    THEN BestMatch(kb, query_lower, i + 1, i, EntryScore(kb[i], query_lower))
    ELSE BestMatch(kb, query_lower, i + 1, best_match, max_score)

\* AIEngine.get_response: the index of the entry returned, 0 for None
get_response(kb, query) ==
    LET m == BestMatch(kb, StrLower(query), 1, 0, 0)
    IN IF m.max_score > 0 THEN m.best_match ELSE 0

\* data/knowledge_base.json as _load_knowledge_base finds it
InitKb ==
    /\ InitTables
    /\ knowledge_base \in KnowledgeBases

GetResponse ==
    \E query \in Queries :
        /\ kbCall = NoKbCall
        /\ kbCall' = [called |-> TRUE, query |-> query,
                      found |-> get_response(knowledge_base, query) # 0,
                      entry |-> get_response(knowledge_base, query)]
        /\ UNCHANGED <<users, tickets, assignments, visible, pc, req, nCalls, response,
                       authVars, knowledge_base, aiCall, chatVars, extVars>>

GetResponseReturns ==
    /\ kbCall # NoKbCall
    /\ kbCall' = NoKbCall
    /\ UNCHANGED <<users, tickets, assignments, visible, pc, req, nCalls, response,
                   authVars, knowledge_base, aiCall, chatVars, extVars>>

NextKb ==
    \/ GetResponse
    \/ GetResponseReturns

SpecKb == InitKb /\ [][NextKb]_vars

(***************************************************************************)
(* backend/app/main.py: POST /chat.  The conversation of a session id goes *)
(* through the states kept in conversation_sessions; a request is one      *)
(* step and its reply stays in chatReply until delivered.                  *)
(***************************************************************************)
\* None, and a text that was returned
NoContext == [found |-> FALSE, answer |-> <<>>]

Context(answer) == [found |-> TRUE, answer |-> answer]

\* `if context:` is false for None and for the empty text
Truthy(context) == context.found /\ context.answer # <<>>

\* the standalone retrieve_context of app/ai_engine.py: result["answer"] if
\* result else None
retrieve_context(kb, query) ==
    IF get_response(kb, query) = 0 THEN NoContext
    ELSE Context(kb[get_response(kb, query)].answer)

\* what ask_ai_deepseek returns: no client, a completion, or an API error;
\* the confidence in hundredths
DeepSeekOutcomes ==
    {[source |-> "unavailable", confidence |-> 30],
     [source |-> "completion", confidence |-> 85],
     [source |-> "failed", confidence |-> 30]}

\* "if confidence > 0.6", in hundredths
ConfidenceThreshold == 60

ChatQueries == {<<"a">>, <<"z">>, <<"Y", "e", "s">>, <<"n", "o">>}

\* the file of a deployment: absent, with an entry for the keyword "a", or
\* with an entry for "z" that has no answer text
ChatKnowledgeBases ==
    {<<>>, <<ListEntry(<<<<"a">>>>)>>, <<EmptyAnswerEntry(<<<<"z">>>>)>>}

\* "yes" in query.lower() or "satisfied" in query.lower() or "solved" in query.lower()
IsSatisfied(query) ==
    \/ IsSubstring(<<"y", "e", "s">>, StrLower(query))
    \/ IsSubstring(<<"s", "a", "t", "i", "s", "f", "i", "e", "d">>, StrLower(query))
    \/ IsSubstring(<<"s", "o", "l", "v", "e", "d">>, StrLower(query))

Conversation(state, original_query) == [state |-> state, original_query |-> original_query]

Reply(kind, user, sid, source, original_query, confidence) ==
    [kind |-> kind, user |-> user, session_id |-> sid, source |-> source,
     original_query |-> original_query, confidence |-> confidence]

\* the branch taken sets the session, the reply and, for a ticket, the table
ChatAnswers(sid, conversation, reply) ==
    /\ conversation_sessions' = [conversation_sessions EXCEPT ![sid] = conversation]
    /\ chatReply' = reply
    /\ UNCHANGED tickets

ChatCreatesTicket(sid, user, priority, reply) ==
    /\ Len(tickets) < MaxTickets
    /\ tickets' = Append(tickets, NewTicket(user.id, priority))
    /\ conversation_sessions' = [conversation_sessions EXCEPT ![sid] = NoConversation]
    /\ chatReply' = reply

chat ==
    \E user \in Callers, sid \in SessionIds, query \in ChatQueries,
       priority \in RequestPriorityInputs, ai \in DeepSeekOutcomes :
        LET gate == require_role({"client"}, user)
            current == conversation_sessions[sid]
            context == retrieve_context(knowledge_base, query)
        IN /\ chatReply = NoReply
           /\ nCalls < MaxCalls
           /\ nCalls' = nCalls + 1
           /\ UNCHANGED <<users, assignments, visible, pc, req, response, authVars, kbVars, extVars>>
           /\ IF gate # 200
              THEN /\ chatReply' = Reply("refused", user, sid, "", <<>>, 0)
                   /\ UNCHANGED <<tickets, conversation_sessions>>
              ELSE IF current.state = "AWAITING_TECH_DETAILS"
              THEN ChatCreatesTicket(sid, user, priority,
                       Reply("ticket_created", user, sid, "", current.original_query, 0))
              ELSE IF current.state = "AWAITING_SATISFACTION_BASIC"
              THEN IF IsSatisfied(query)
                   THEN ChatAnswers(sid, NoConversation,
                            Reply("resolved", user, sid, "", current.original_query, 0))
                   ELSE ChatAnswers(sid,
                            Conversation("AWAITING_SATISFACTION_AI", current.original_query),
                            Reply("ai_enhanced", user, sid, ai.source,
                                  current.original_query, ai.confidence))
              ELSE IF current.state = "AWAITING_SATISFACTION_AI"
              THEN IF IsSatisfied(query)
                   THEN ChatAnswers(sid, NoConversation,
                            Reply("resolved", user, sid, "", current.original_query, 0))
                   ELSE ChatCreatesTicket(sid, user, priority,
                            Reply("ticket_created", user, sid, "", current.original_query, 0))
              ELSE IF Truthy(context)
              THEN ChatAnswers(sid, Conversation("AWAITING_SATISFACTION_BASIC", query),
                       Reply("basic_solution", user, sid, "knowledge_base", query, 0))
              ELSE IF ai.confidence > ConfidenceThreshold
              THEN ChatAnswers(sid, Conversation("AWAITING_SATISFACTION_AI", query),
                       Reply("ai_response", user, sid, ai.source, query, ai.confidence))
              ELSE ChatAnswers(sid, Conversation("AWAITING_TECH_DETAILS", query),
                       Reply("ask_details", user, sid, "", query, ai.confidence))

ChatReplyDelivered ==
    /\ chatReply # NoReply
    /\ chatReply' = NoReply
    /\ UNCHANGED <<users, tickets, assignments, visible, pc, req, nCalls, response,
                   authVars, kbVars, conversation_sessions, extVars>>

InitChat ==
    /\ InitTables
    /\ knowledge_base \in ChatKnowledgeBases

NextChat ==
    \/ chat
    \/ ChatReplyDelivered

SpecChat == InitChat /\ [][NextChat]_vars

(***************************************************************************)
(* backend/app/main.py: POST /chat served by worker threads.  chat is a    *)
(* plain "def" endpoint, so two requests run side by side; each reads the  *)
(* session (conversation_sessions.get), and only after its calls to the    *)
(* database or the completion API does it store or pop the entry.          *)
(***************************************************************************)
\* the locals of a running chat request: session_id, query, current_state
ChatRequest(user, sid, query, priority, current_state) ==
    [handler |-> "chat", user |-> user, session_id |-> sid, query |-> query,
     priority |-> priority, current_state |-> current_state, ticket_id |-> 0, code |-> 0]

ChatStep(p, label) ==
    /\ pc[p] = label
    /\ chatReply = NoReply
    /\ UNCHANGED <<users, assignments, visible, response, authVars, kbVars, chatReply, extVars>>

\* the branch of the handler that the state read at line 190 selects
CreatesTicket(r) ==
    \/ r.current_state = "AWAITING_TECH_DETAILS"
    \/ (r.current_state = "AWAITING_SATISFACTION_AI" /\ ~IsSatisfied(r.query))

\* require_role("client"), then session = conversation_sessions.get(session_id, {})
\* and current_state = session.get("state")
\* who sends the requests: a client and, for the 403, a developer
ChatCallers == {c \in Callers : c.id \in {1, 3}}

chat_get_session(p) ==
    \E user \in ChatCallers, sid \in SessionIds, query \in ChatQueries,
       priority \in RequestPriorityInputs :
        LET r == ChatRequest(user, sid, query, priority, conversation_sessions[sid].state)
        IN /\ ChatStep(p, "idle")
           /\ nCalls < MaxRequests
           /\ nCalls' = nCalls + 1
           /\ UNCHANGED <<tickets, conversation_sessions>>
           /\ req' = [req EXCEPT ![p] = [r EXCEPT !.code = require_role({"client"}, user)]]
           /\ pc' = [pc EXCEPT ![p] =
                        IF require_role({"client"}, user) # 200 THEN "done"
                        ELSE IF CreatesTicket(r) THEN "chat_create_ticket"
                        ELSE "chat_answer"]

\* ticket_id = db.create_ticket(...); conversation_sessions.pop(session_id, None)
chat_create_ticket(p) ==
    /\ ChatStep(p, "chat_create_ticket")
    /\ Len(tickets) < MaxTickets
    /\ tickets' = Append(tickets, NewTicket(req[p].user.id, req[p].priority))
    /\ conversation_sessions' =
           [conversation_sessions EXCEPT ![req[p].session_id] = NoConversation]
    /\ req' = [req EXCEPT ![p].ticket_id = Len(tickets) + 1]
    /\ pc' = [pc EXCEPT ![p] = "done"]
    /\ UNCHANGED nCalls

\* the other branches: the entry is popped on "yes", or stored with the next state
chat_answer(p) ==
    \E ai \in DeepSeekOutcomes :
        LET r == req[p]
            sid == r.session_id
            original_query == conversation_sessions[sid].original_query
            context == retrieve_context(knowledge_base, r.query)
            entry == IF r.current_state \in {"AWAITING_SATISFACTION_BASIC",
                                             "AWAITING_SATISFACTION_AI"}
                     THEN IF IsSatisfied(r.query) THEN NoConversation
                          ELSE Conversation("AWAITING_SATISFACTION_AI", original_query)
                     ELSE IF Truthy(context)
                     THEN Conversation("AWAITING_SATISFACTION_BASIC", r.query)
                     ELSE IF ai.confidence > ConfidenceThreshold
                     THEN Conversation("AWAITING_SATISFACTION_AI", r.query)
                     ELSE Conversation("AWAITING_TECH_DETAILS", r.query)
        IN /\ ChatStep(p, "chat_answer")
           /\ conversation_sessions' = [conversation_sessions EXCEPT ![sid] = entry]
           /\ pc' = [pc EXCEPT ![p] = "done"]
           /\ UNCHANGED <<tickets, req, nCalls>>

\* the response is sent and the worker is free again
ChatWorkerReturns(p) ==
    /\ ChatStep(p, "done")
    /\ pc' = [pc EXCEPT ![p] = "idle"]
    /\ req' = [req EXCEPT ![p] = NoRequest]
    /\ UNCHANGED <<tickets, conversation_sessions, nCalls>>

NextChatWorkers ==
    \E p \in Procs :
        \/ chat_get_session(p)
        \/ chat_create_ticket(p)
        \/ chat_answer(p)
        \/ ChatWorkerReturns(p)

SpecChatWorkers == InitChat /\ [][NextChatWorkers]_vars

(***************************************************************************)
(* backend/app/main.py over app/database.py: GET and POST /user/settings   *)
(***************************************************************************)
\* email VARCHAR(255) of the user_settings table
MaxEmailLen == 255

\* the request of test_settings.py, the defaults, and an over-long address
SettingsInputs ==
    {DefaultSettings,
     [email |-> [text |-> "admin@localhost.com", len |-> 19], emailNotifications |-> TRUE,
      browserNotifications |-> FALSE, ticketAssignmentNotifications |-> TRUE,
      ticketUpdateNotifications |-> FALSE],
     [email |-> [text |-> "long", len |-> MaxEmailLen + 1], emailNotifications |-> FALSE,
      browserNotifications |-> TRUE, ticketAssignmentNotifications |-> TRUE,
      ticketUpdateNotifications |-> TRUE]}

\* the users whose token get_current_user accepts in this specification
SettingsCallers == {1, 6}

\* whether the INSERT ... ON DUPLICATE KEY UPDATE raises: no table, or a value
\* the column cannot hold under a strict sql_mode
InsertRaises(table, strict, settings) ==
    \/ ~table.exists
    \/ (strict /\ settings.email.len > MaxEmailLen)

\* the value the column holds after the INSERT
Stored(settings) ==
    IF settings.email.len > MaxEmailLen
    THEN [settings EXCEPT !.email = [text |-> "truncated", len |-> MaxEmailLen]]
    ELSE settings

\* Database.update_user_settings: "except: pass" around the INSERT
db_update_user_settings(table, strict, user_id, settings) ==
    IF InsertRaises(table, strict, settings)
    THEN [raised |-> FALSE, table |-> table]
    ELSE [raised |-> FALSE,
          table |-> [table EXCEPT !.rows[user_id] = [present |-> TRUE, row |-> Stored(settings)]]]

\* Database.get_user_settings: the row, or the defaults without row or table
db_get_user_settings(table, user_id) ==
    IF table.exists /\ table.rows[user_id].present
    THEN table.rows[user_id].row
    ELSE DefaultSettings

\* a database with or without the user_settings table, under either sql_mode
InitSettings ==
    /\ InitCore
    /\ knowledge_base = <<>>
    /\ user_settings \in {[exists |-> e, rows |-> [u \in UserIds |-> NoRow]] : e \in BOOLEAN}
    /\ sql_strict \in BOOLEAN

\* GET /user/settings
get_user_settings ==
    \E u \in SettingsCallers :
        /\ settingsReply = NoSettingsReply
        /\ settingsReply' = [handler |-> "get_user_settings", user_id |-> u, code |-> 200,
                             settings |-> db_get_user_settings(user_settings, u)]
        /\ UNCHANGED <<users, tickets, assignments, visible, pc, req, nCalls, response,
                       authVars, kbVars, chatVars, notifyVars, user_settings, sql_strict, posted,
                       accountVars>>

\* POST /user/settings
update_user_settings ==
    \E u \in SettingsCallers, settings_data \in SettingsInputs :
        LET done == db_update_user_settings(user_settings, sql_strict, u, settings_data)
        IN /\ settingsReply = NoSettingsReply
           /\ user_settings' = done.table
           /\ settingsReply' = [handler |-> "update_user_settings", user_id |-> u,
                                code |-> IF done.raised THEN 500 ELSE 200,
                                settings |-> settings_data]
           /\ posted' = IF done.raised THEN posted
                        ELSE [posted EXCEPT ![u] = [posted |-> TRUE, settings |-> settings_data]]
           /\ UNCHANGED <<users, tickets, assignments, visible, pc, req, nCalls, response,
                          authVars, kbVars, chatVars, notifyVars, sql_strict, accountVars>>

SettingsReplyDelivered ==
    /\ settingsReply # NoSettingsReply
    /\ settingsReply' = NoSettingsReply
    /\ UNCHANGED <<users, tickets, assignments, visible, pc, req, nCalls, response,
                   authVars, kbVars, chatVars, notifyVars, user_settings, sql_strict, posted,
                       accountVars>>

NextSettings ==
    \/ get_user_settings
    \/ update_user_settings
    \/ SettingsReplyDelivered

SpecSettings == InitSettings /\ [][NextSettings]_vars

(***************************************************************************)
(* POST /developer/tickets/{ticket_id}/self-assign of enhanced_rbac_main.py *)
(* over self_assign_ticket of enhanced_rbac_database.py, statement by       *)
(* statement: the endpoint runs in a thread pool and the connection is in   *)
(* autocommit mode, so two calls interleave between SELECT and UPDATE.      *)
(***************************************************************************)
SelfAssignStep(p, label) ==
    /\ pc[p] = label
    /\ UNCHANGED <<users, assignments, visible, response, authVars, serviceVars>>

\* a client opens a ticket while no call is under way
SelfAssignCreateTicket ==
    /\ \A p \in Procs : pc[p] = "idle"
    /\ CreateTicketByClient
    /\ UNCHANGED <<pc, req>>

\* the dependency developer_required, then the SELECT of self_assign_ticket
developer_self_assign(p) ==
    \E user \in Callers, t \in TicketArgs :
        LET gate == developer_required(user)
            r == Request("developer_self_assign", user, t, user.id)
        IN /\ SelfAssignStep(p, "idle")
           /\ nCalls < MaxCalls
           /\ nCalls' = nCalls + 1
           /\ UNCHANGED tickets
           /\ IF gate # 200 THEN Respond(p, Request("developer_self_assign", user, 0, 0), gate, FALSE)
              ELSE IF ~self_assign_ticket_check(tickets, t) THEN Respond(p, r, 400, TRUE)
              ELSE Goto(p, r, "self_assign_update")

\* the UPDATE of self_assign_ticket, the history row, and "return True"
self_assign_ticket_returns_true(p) ==
    /\ SelfAssignStep(p, "self_assign_update")
    /\ tickets' = self_assign_ticket_update(tickets, req[p].ticket_id, req[p].developer_id)
    /\ Respond(p, req[p], 200, TRUE)
    /\ UNCHANGED nCalls

\* the developer has the answer
SelfAssignDelivered(p) ==
    /\ SelfAssignStep(p, "done")
    /\ pc' = [pc EXCEPT ![p] = "idle"]
    /\ req' = [req EXCEPT ![p] = NoRequest]
    /\ UNCHANGED <<tickets, nCalls>>

NextSelfAssign ==
    \/ SelfAssignCreateTicket
    \/ \E p \in Procs :
          \/ developer_self_assign(p)
          \/ self_assign_ticket_returns_true(p)
          \/ SelfAssignDelivered(p)

SpecSelfAssign == Init /\ [][NextSelfAssign]_vars

(***************************************************************************)
(* enhanced_rbac_database.py, statement by statement: assign, self-assign,  *)
(* pass and status update each run a SELECT and then an UPDATE ... WHERE    *)
(* id=%s on an autocommit connection, so two calls interleave between them. *)
(***************************************************************************)
DbStep(p, label) ==
    /\ pc[p] = label
    /\ UNCHANGED <<users, assignments, visible, response, authVars, serviceVars>>

\* a call begins with its verification SELECT: "return False" or on to the UPDATE
DbSelect(p, fn, ticket_id, developer_id, status, notes, found, label) ==
    LET r == [Request(fn, [id |-> developer_id, role |-> "developer"], ticket_id, developer_id)
                 EXCEPT !.status = status, !.text = notes]
    IN /\ DbStep(p, "idle")
       /\ nCalls < MaxCalls
       /\ nCalls' = nCalls + 1
       /\ UNCHANGED tickets
       /\ IF found THEN Goto(p, r, label) ELSE Respond(p, r, 400, TRUE)

\* the UPDATE of the call, and "return True"
DbUpdate(p, label, updated) ==
    /\ DbStep(p, label)
    /\ tickets' = updated
    /\ Respond(p, req[p], 200, TRUE)
    /\ UNCHANGED nCalls

DbCreateTicket ==
    /\ \A p \in Procs : pc[p] = "idle"
    /\ CreateTicketByClient
    /\ UNCHANGED <<pc, req>>

assign_ticket_to_developer_select(p) ==
    \E t \in TicketIds(tickets), d \in Developers :
        DbSelect(p, "assign_ticket_to_developer", t, d, "", <<"see", "log">>,
                 assign_ticket_to_developer_check(users, tickets, t, d), "db_assign_update")

assign_ticket_to_developer_write(p) ==
    DbUpdate(p, "db_assign_update",
             assign_ticket_to_developer_update(tickets, req[p].ticket_id, req[p].developer_id,
                                               req[p].text))

self_assign_ticket_select(p) ==
    \E t \in TicketIds(tickets), d \in Developers :
        DbSelect(p, "self_assign_ticket", t, d, "", <<>>,
                 self_assign_ticket_check(tickets, t), "db_self_assign_update")

self_assign_ticket_write(p) ==
    DbUpdate(p, "db_self_assign_update",
             self_assign_ticket_update(tickets, req[p].ticket_id, req[p].developer_id))

pass_ticket_by_developer_select(p) ==
    \E t \in TicketIds(tickets), d \in Developers, r \in ReasonInputs :
        DbSelect(p, "pass_ticket_by_developer", t, d, "", r,
                 pass_ticket_by_developer_check(users, tickets, t, d), "db_pass_update")

pass_ticket_by_developer_write(p) ==
    DbUpdate(p, "db_pass_update",
             pass_ticket_by_developer_update(tickets, req[p].ticket_id, req[p].text))

update_ticket_status_by_developer_select(p) ==
    \E t \in TicketIds(tickets), d \in Developers, st \in Statuses, n \in CompletionInputs :
        DbSelect(p, "update_ticket_status_by_developer", t, d, st, n,
                 update_ticket_status_by_developer_check(tickets, t, d), "db_status_update")

update_ticket_status_by_developer_write(p) ==
    DbUpdate(p, "db_status_update",
             update_ticket_status_by_developer_update(tickets, req[p].ticket_id, req[p].status,
                                                      req[p].text))

\* the caller has the result
DbReturns(p) ==
    /\ DbStep(p, "done")
    /\ pc' = [pc EXCEPT ![p] = "idle"]
    /\ req' = [req EXCEPT ![p] = NoRequest]
    /\ UNCHANGED <<tickets, nCalls>>

NextDb ==
    \/ DbCreateTicket
    \/ \E p \in Procs :
          \/ assign_ticket_to_developer_select(p)
          \/ assign_ticket_to_developer_write(p)
          \/ self_assign_ticket_select(p)
          \/ self_assign_ticket_write(p)
          \/ pass_ticket_by_developer_select(p)
          \/ pass_ticket_by_developer_write(p)
          \/ update_ticket_status_by_developer_select(p)
          \/ update_ticket_status_by_developer_write(p)
          \/ DbReturns(p)

SpecDb == Init /\ [][NextDb]_vars

(***************************************************************************)
(* Account creation: POST /register and /admin/create-user of              *)
(* backend/app/main.py, /register, /pm/team/create-user and                *)
(* /admin/users/create of backend/main.py, /admin/users/create of          *)
(* enhanced_rbac_main.py, create_user_by_pm of enhanced_rbac_database.py   *)
(***************************************************************************)
\* the role field of the request bodies: any string
RoleInputs == Roles \cup {"root"}

\* the ENUM column of users keeps a listed role and nothing else
EnumRole(role) == IF role \in Roles THEN role ELSE ""

\* the row of users an INSERT adds, with the caller it was added for
Account(role, user, is_active) ==
    [role |-> EnumRole(role), is_active |-> is_active, created_by |-> user]

\* a request from its dependencies to its response
AccountRequest(handler, user, role, code, rows) ==
    /\ accountReply = NoAccountReply
    /\ Len(accounts) + Len(rows) <= MaxAccounts
    /\ accounts' = accounts \o rows
    /\ accountReply' = [handler |-> handler, user |-> user, role |-> role, code |-> code]
    /\ UNCHANGED <<users, tickets, assignments, visible, pc, req, nCalls, response,
                   authVars, kbVars, chatVars, notifyVars, settingsVars>>

\* Database.register_client of backend/app/database.py and register_client
\* of the other backends: the role is the literal 'client'
register_client(user) == <<Account("client", user, TRUE)>>

\* Database.add_user: the role of the caller's choice
add_user(user, role) == <<Account(role, user, TRUE)>>

\* POST /register of backend/app/main.py: no dependency on a token
app_register ==
    \E user \in Callers, role \in RoleInputs :
        AccountRequest("app.register", user, role, 200,
                       IF role = "client" THEN register_client(user) ELSE add_user(user, role))

\* POST /admin/create-user and /admin/users/create of backend/app/main.py
app_create_user_admin ==
    \E user \in Callers, role \in RoleInputs :
        AccountRequest("app.create_user_admin", user, role, require_role({"admin"}, user),
                       IF require_role({"admin"}, user) = 200 THEN add_user(user, role) ELSE <<>>)

\* POST /register of backend/main.py and of enhanced_rbac_main.py
main_register ==
    \E user \in Callers :
        AccountRequest("main.register", user, "client", 200, register_client(user))

\* POST /pm/team/create-user of backend/main.py: register_client, then the
\* UPDATE of the role
create_team_user ==
    \E user \in Callers, role \in RoleInputs :
        LET gate == role_required({"project_manager"}, user)
            code == IF gate # 200 THEN gate
                    ELSE IF role \notin {"developer", "client"} THEN 403
                    ELSE 200
        IN AccountRequest("main.create_team_user", user, role, code,
                          IF code = 200 THEN <<Account(role, user, TRUE)>> ELSE <<>>)

\* POST /admin/users/create of backend/main.py
create_admin_user ==
    \E user \in Callers, role \in RoleInputs :
        LET gate == admin_required(user)
            code == IF gate # 200 THEN gate
                    ELSE IF role \notin Roles THEN 400
                    ELSE 200
        IN AccountRequest("main.create_admin_user", user, role, code,
                          IF code = 200 THEN <<Account(role, user, TRUE)>> ELSE <<>>)

\* POST /admin/users/create of enhanced_rbac_main.py over create_user_by_admin
admin_create_user ==
    \E user \in Callers, role \in RoleInputs :
        LET gate == admin_required(user)
            code == IF gate # 200 THEN gate
                    ELSE IF role \notin Roles THEN 400
                    ELSE 200
        IN AccountRequest("rbac.admin_create_user", user, role, code,
                          IF code = 200 THEN <<Account(role, user, TRUE)>> ELSE <<>>)

\* create_user_by_pm, called for a project manager: the account is inactive
create_user_by_pm ==
    \E pm_id \in ProjectManagers, role \in RoleInputs :
        LET user == [id |-> pm_id, role |-> "project_manager"]
            code == IF role \notin {"developer", "client"} THEN 400 ELSE 200
        IN AccountRequest("create_user_by_pm", user, role, code,
                          IF code = 200 THEN <<Account(role, user, FALSE)>> ELSE <<>>)

AccountReplyDelivered ==
    /\ accountReply # NoAccountReply
    /\ accountReply' = NoAccountReply
    /\ UNCHANGED <<users, tickets, assignments, visible, pc, req, nCalls, response,
                   authVars, kbVars, chatVars, notifyVars, settingsVars, accounts>>

NextAccounts ==
    \/ app_register
    \/ app_create_user_admin
    \/ main_register
    \/ create_team_user
    \/ create_admin_user
    \/ admin_create_user
    \/ create_user_by_pm
    \/ AccountReplyDelivered

SpecAccounts == Init /\ [][NextAccounts]_vars

(***************************************************************************)
(* backend/ai_engine.py: ask_ai_hybrid and the router needs_human          *)
(***************************************************************************)
ESCALATION_KEYWORDS ==
    {<<"e", "r", "r", "o", "r">>,
     <<"c", "r", "a", "s", "h">>,
     <<"b", "u", "g">>,
     <<"f", "a", "i", "l">>,
     <<"b", "r", "o", "k", "e", "n">>,
     <<"d", "o", "w", "n">>,
     <<"p", "a", "y", "m", "e", "n", "t">>,
     <<"b", "i", "l", "l", "i", "n", "g">>,
     <<"c", "h", "a", "r", "g", "e">>,
     <<"d", "e", "p", "l", "o", "y">>,
     <<"s", "e", "r", "v", "e", "r">>,
     <<"d", "a", "t", "a", "b", "a", "s", "e">>,
     <<"c", "r", "i", "t", "i", "c", "a", "l">>,
     <<"u", "r", "g", "e", "n", "t">>,
     <<"h", "a", "c", "k">>,
     <<"s", "e", "c", "u", "r", "i", "t", "y">>,
     <<"n", "o", "t", " ", "w", "o", "r", "k", "i", "n", "g">>,
     <<"d", "o", "e", "s", "n", "'", "t", " ", "w", "o", "r", "k">>,
     <<"c", "a", "n", "'", "t", " ", "a", "c", "c", "e", "s", "s">>,
     <<"u", "n", "a", "b", "l", "e", " ", "t", "o">>,
     <<"h", "e", "l", "p", " ", "m", "e">>,
     <<"s", "t", "u", "c", "k">>,
     <<"p", "r", "o", "b", "l", "e", "m">>,
     <<"i", "s", "s", "u", "e">>,
     <<"t", "r", "o", "u", "b", "l", "e">>}

\* the loop of retrieve_context in backend/ai_engine.py: the score of an entry
RECURSIVE HybridScore(_, _)
HybridScore(keywords, q_lower) ==
    IF keywords = <<>> THEN 0
    ELSE (IF IsSubstring(StrLower(Head(keywords)), q_lower)
          THEN 2 * Len(Head(keywords)) ELSE 0)
         + HybridScore(Tail(keywords), q_lower)

RECURSIVE HybridBestMatch(_, _, _, _, _)
HybridBestMatch(kb, q_lower, i, best_match, max_score) ==
    IF i > Len(kb) THEN best_match
    ELSE IF HybridScore(kb[i].list, q_lower) > max_score
    THEN HybridBestMatch(kb, q_lower, i + 1, Context(kb[i].answer),
                         HybridScore(kb[i].list, q_lower))
    ELSE HybridBestMatch(kb, q_lower, i + 1, best_match, max_score)

\* retrieve_context of backend/ai_engine.py: the best matching answer or None
hybrid_retrieve_context(kb, query) == HybridBestMatch(kb, StrLower(query), 1, NoContext, 0)

\* ask_ai_deepseek with a client: the completion, or the text of the except branch
ask_ai_deepseek(client, api_ok) ==
    IF ~client THEN [source |-> "unavailable", conf |-> 30]
    ELSE IF api_ok THEN [source |-> "completion", conf |-> 85]
    ELSE [source |-> "failed", conf |-> 30]

\* ask_ai_hybrid; the confidence in hundredths
ask_ai_hybrid(kb, q, client, api_ok) ==
    IF Truthy(hybrid_retrieve_context(kb, q)) THEN [source |-> "knowledge_base", conf |-> 75]
    ELSE IF client THEN ask_ai_deepseek(client, api_ok)
    ELSE [source |-> "fallback", conf |-> 40]

\* variant: the router escalates below 0.8
needs_human_cautious(q, conf) ==
    \/ \E k \in ESCALATION_KEYWORDS : IsSubstring(k, StrLower(q))
    \/ conf < 80

needs_human(q, conf) ==
    \/ \E k \in ESCALATION_KEYWORDS : IsSubstring(k, StrLower(q))
    \/ conf < 60

HybridQueries ==
    {<<>>, <<"a">>, <<"z">>, <<"b", "u", "g">>, <<"a", " ", "B", "U", "G">>}

\* entries as add_knowledge_entry writes them: the keywords are a list
HybridEntries ==
    {ListEntry(<<<<"a">>>>), EmptyAnswerEntry(<<<<"z">>>>), ListEntry(<<<<"B", "u">>, <<"g">>>>)}

InitHybrid ==
    /\ InitTables
    /\ knowledge_base \in SeqsUpTo(HybridEntries, MaxEntries)

AskAiHybrid ==
    \E q \in HybridQueries, client \in BOOLEAN, api_ok \in BOOLEAN :
        LET answer == ask_ai_hybrid(knowledge_base, q, client, api_ok)
        IN /\ aiCall = NoAiCall
           /\ aiCall' = [called |-> TRUE, q |-> q, client |-> client, api_ok |-> api_ok,
                         source |-> answer.source, conf |-> answer.conf,
                         needs_human |-> needs_human(q, answer.conf)]
           /\ UNCHANGED <<users, tickets, assignments, visible, pc, req, nCalls, response,
                          authVars, knowledge_base, kbCall, chatVars, extVars>>

AskAiHybridReturns ==
    /\ aiCall # NoAiCall
    /\ aiCall' = NoAiCall
    /\ UNCHANGED <<users, tickets, assignments, visible, pc, req, nCalls, response,
                   authVars, knowledge_base, kbCall, chatVars, extVars>>

NextHybrid ==
    \/ AskAiHybrid
    \/ AskAiHybridReturns

SpecHybrid == InitHybrid /\ [][NextHybrid]_vars

(***************************************************************************)
(* Properties of the visibility engine and of the ticket life cycle of     *)
(* enhanced_rbac_database.py (SpecRbac)                                    *)
(***************************************************************************)
Returned == {visible.tickets[i] : i \in DOMAIN visible.tickets}

ReturnedIds == {r.id : r \in Returned}

ActiveIds == {t \in TicketIds(tickets) : tickets[t].status \in {"OPEN", "IN_PROGRESS"}}

\* C1: every ticket get_visible_tickets returns to a caller presented as a
\* client, whatever the filters, is owned by that caller.
C1_ClientSeesOnlyOwnTickets ==
    visible.user_role = "client" =>
        \A r \in Returned : r.user_id = visible.user_id

\* a client got tickets back while another client's ticket is in the table
C1_Witness ==
    /\ visible.user_role = "client"
    /\ Returned # {}
    /\ \E t \in TicketIds(tickets) : tickets[t].user_id # visible.user_id

\* C3: no ticket returned to a client, developer or project manager carries
\* assignment notes with the marker INTERNAL:, and an admin gets the notes as
\* they are stored.
C3_InternalNotesHiddenFromNonAdmins ==
    /\ visible.user_role \in {"client", "developer", "project_manager"} =>
          \A r \in Returned : ~ContainsMarker(r.assignment_notes)
    /\ visible.user_role = "admin" =>
          \A r \in Returned : r.assignment_notes = tickets[r.id].assignment_notes

\* C4: without filters a developer or project manager gets exactly the OPEN
\* and IN_PROGRESS tickets, and an admin gets exactly all tickets.
C4_StaffSeeExactlyActiveTickets ==
    (visible.filters = NoFilters /\ Len(tickets) <= QueryLimit) =>
        /\ visible.user_role \in {"developer", "project_manager"} =>
              /\ ReturnedIds = ActiveIds
              /\ \A r \in Returned : r.status # "CLOSED"
              /\ Len(visible.tickets) = Cardinality(ActiveIds)
        /\ visible.user_role = "admin" =>
              /\ ReturnedIds = TicketIds(tickets)
              /\ Len(visible.tickets) = Len(tickets)

\* a developer asked without filters, got a ticket that is neither assigned
\* to them nor unassigned, and a CLOSED ticket was left out
C4_Witness ==
    /\ visible.user_role = "developer"
    /\ visible.filters = NoFilters
    /\ \E r \in Returned : r.assigned_developer_id \notin {NULL, visible.user_id}
    /\ \E t \in TicketIds(tickets) : tickets[t].status = "CLOSED"

\* C6: once a ticket is CLOSED no call of enhanced_rbac_database.py changes
\* its status again.
C6_ClosedIsFinal ==
    [][\A t \in TicketIds(tickets) :
          tickets[t].status = "CLOSED" => tickets'[t].status = "CLOSED"]_vars


(***************************************************************************)
(* Properties of backend/app/main.py                                       *)
(***************************************************************************)
\* C2: no response to a request authenticated with role client contains a
\* ticket whose user_id differs from the caller's id, for GET /client/tickets,
\* GET /client/tickets/{ticket_id} and GET /ticket/{ticket_id}.
C2_ClientResponsesHoldOwnTickets ==
    (/\ response.user.role = "client"
     /\ response.handler \in {"get_client_tickets", "get_client_ticket_details", "get_ticket"})
    => \A i \in DOMAIN response.tickets : response.tickets[i].user_id = response.user.id

(***************************************************************************)
(* Properties of backend/main.py                                           *)
(***************************************************************************)
ActiveAssignments(t) ==
    {i \in DOMAIN assignments : assignments[i].ticket_id = t /\ assignments[i].is_active}

\* C5: every ticket has at most one ticket_assignments row with
\* is_active = TRUE in every reachable state, whatever the interleaving of
\* the self-assign, admin-assign, PM-assign and pass requests.
C5_AtMostOneActiveAssignment ==
    \A t \in TicketIds(tickets) : Cardinality(ActiveAssignments(t)) <= 1

\* C7: a ticket comes into being only through POST /client/tickets/create
\* answered with success, stored with status OPEN and the user_id of the
\* authenticated client; no step removes a ticket or changes its user_id.
C7_OwnerFixedFromCreation ==
    [][/\ \A t \in TicketIds(tickets) :
            /\ t \in TicketIds(tickets')
            /\ tickets'[t].user_id = tickets[t].user_id
       /\ \A t \in TicketIds(tickets') \ TicketIds(tickets) :
            \E p \in Procs :
                /\ req'[p].handler = "create_client_ticket"
                /\ req'[p].code = 200
                /\ req'[p].ticket_id = t
                /\ req'[p].user.role = "client"
                /\ tickets'[t].user_id = req'[p].user.id
                /\ tickets'[t].status = "OPEN"]_vars

\* a ticket of a client that was assigned, worked on and closed
C7_Witness ==
    \E t \in TicketIds(tickets) :
        /\ tickets[t].status = "CLOSED"
        /\ tickets[t].user_id \in Clients
        /\ \E i \in DOMAIN assignments : assignments[i].ticket_id = t

\* C8: POST /ticket/{ticket_id}/reply by a developer to whom the ticket is
\* not assigned is refused and leaves the tickets unchanged.
C8_ReplyOnlyByAssignedDeveloper ==
    [][\A p \in Procs :
        (/\ pc[p] = "idle"
         /\ pc'[p] = "done"
         /\ req'[p].handler = "reply_ticket"
         /\ req'[p].user.role = "developer"
         /\ req'[p].ticket_id \in TicketIds(tickets)
         /\ ~IsActiveAssignee(assignments, req'[p].ticket_id, req'[p].user.id)
         /\ tickets[req'[p].ticket_id].assigned_developer_id # req'[p].user.id)
        => (req'[p].code # 200 /\ tickets' = tickets)]_vars

\* the roles each handler names in its role_required decorator
HandlerRoles ==
    [create_client_ticket   |-> {"client"},
     reply_ticket           |-> {"developer"},
     assign_ticket_as_admin |-> {"admin"},
     assign_ticket_as_pm    |-> {"project_manager"},
     self_assign_ticket     |-> {"developer"},
     complete_ticket        |-> {"developer"},
     pass_ticket            |-> {"developer"},
     cancel_ticket          |-> {"developer"},
     update_ticket_status   |-> {"developer"}]

\* C9: a handler wrapped by role_required(R1, ..., Rn) runs only for a user
\* with a role among R1..Rn: a request without user is answered 401, one of
\* a user with another role 403, and in both cases the handler body does not
\* run and the tables stay as they were.
C9_RoleRequiredGuardsHandler ==
    [][\A p \in Procs :
        (pc[p] = "idle" /\ pc'[p] # "idle") =>
            LET r == req'[p]
                untouched == ~r.ran /\ pc'[p] = "done"
                             /\ tickets' = tickets /\ assignments' = assignments
            IN /\ r.user = NoUser => r.code = 401 /\ untouched
               /\ (r.user # NoUser /\ r.user.role \notin HandlerRoles[r.handler])
                    => r.code = 403 /\ untouched
               /\ r.ran => (r.user # NoUser /\ r.user.role \in HandlerRoles[r.handler])]_vars

\* a client's request to a handler for developers has been answered 403
C9_Witness ==
    \E p \in Procs :
        /\ pc[p] = "done"
        /\ req[p].user.role = "client"
        /\ req[p].handler = "self_assign_ticket"
        /\ req[p].code = 403
        /\ ~req[p].ran
        /\ tickets # <<>>

(***************************************************************************)
(* Properties of backend/enhanced_rbac_main.py                             *)
(***************************************************************************)
\* C10: a token issued by /login is accepted by get_user on every later
\* request, with the id and role it was issued with, also after
\* revoke_token was called on it and after its user was deactivated.
C10_IssuedTokensStayAccepted ==
    \A i \in issued :
        session.authorization = i.token =>
            /\ session.code = 200
            /\ session.user.id = i.id
            /\ session.user.role = i.role

\* a revoked token of a deactivated user has just been accepted
C10_Witness ==
    \E i \in issued :
        /\ session.authorization = i.token
        /\ i.token \in revokeCalls
        /\ ~users[i.id].is_active
        /\ session.code = 200


(***************************************************************************)
(* Properties of the user management of enhanced_rbac_database.py          *)
(***************************************************************************)
Reactivating == {"activate_user", "approve_user_by_admin", "toggle_user_status"}

\* C11: a successful deactivate_user(u, a) makes authenticate_user return no
\* user for u's correct credentials; this lasts until the next call that
\* reactivates u (activate_user, approve_user_by_admin or toggle_user_status),
\* after which authenticate_user returns u again.
C11_DeactivatedUserCannotLogIn ==
    [][\A u \in UserIds :
        /\ (userCall'.fn = "deactivate_user" /\ userCall'.user_id = u /\ userCall'.result)
              => authenticate_user(users', u, TRUE) = NoUser
        /\ (/\ authenticate_user(users, u, TRUE) = NoUser
            /\ ~(userCall'.fn \in Reactivating /\ userCall'.user_id = u))
              => authenticate_user(users', u, TRUE) = NoUser
        /\ (/\ authenticate_user(users, u, TRUE) = NoUser
            /\ userCall'.fn \in Reactivating /\ userCall'.user_id = u /\ userCall'.result)
              => authenticate_user(users', u, TRUE) = [id |-> u, role |-> users[u].role]
        /\ (userCall'.fn = "authenticate_user" /\ userCall'.user_id = u /\ userCall'.password_ok)
              => userCall'.result = (authenticate_user(users, u, TRUE) # NoUser)]_vars

\* a user who had logged in is refused with the right password while deactivated
C11_Witness ==
    /\ userCall.fn = "authenticate_user"
    /\ userCall.password_ok
    /\ ~userCall.result
    /\ ~users[userCall.user_id].is_active
    /\ \E i \in issued : i.id = userCall.user_id

\* C12: for every user u, deactivate_user(u, u) and toggle_user_status(u, u)
\* return False and leave u's is_active flag unchanged.
C12_NoSelfDeactivation ==
    [][(/\ userCall'.fn \in {"deactivate_user", "toggle_user_status"}
        /\ userCall'.user_id = userCall'.admin_id)
       => (~userCall'.result /\ users' = users)]_vars

\* an admin has just asked to toggle their own status
C12_Witness ==
    /\ userCall.fn = "toggle_user_status"
    /\ userCall.user_id = userCall.admin_id
    /\ userCall.user_id \in Admins
    /\ ~userCall.result
    /\ users[userCall.user_id].is_active


(***************************************************************************)
(* Properties of AIEngine.get_response                                     *)
(***************************************************************************)
KbIndexes == DOMAIN knowledge_base

CalledQueryLower == StrLower(kbCall.query)

\* the bonus for a keyword that stands between blanks or the ends of the query
WholeWord(k, q) == IsSubstring(<<" ">> \o k \o <<" ">>, <<" ">> \o q \o <<" ">>)

\* the keyword as it is written is a substring of the lowercased query
MatchesAsWritten(k, q) == IsSubstring(k, q)

\* the lowercased keyword is a substring of the lowercased query
MatchesLowered(k, q) == IsSubstring(StrLower(k), q)

RECURSIVE SumOver(_, _, _)
SumOver(keywords, q, lowered) ==
    IF keywords = <<>> THEN 0
    ELSE (IF (IF lowered THEN MatchesLowered(Head(keywords), q)
                         ELSE MatchesAsWritten(Head(keywords), q))
          THEN 2 * Len(Head(keywords)) + (IF WholeWord(StrLower(Head(keywords)), q) THEN 5 ELSE 0)
          ELSE 0)
         + SumOver(Tail(keywords), q, lowered)

\* the earliest entry whose score is the greatest
EarliestGreatest(Score(_)) ==
    CHOOSE i \in KbIndexes :
        /\ \A j \in KbIndexes : Score(j) <= Score(i)
        /\ \A j \in KbIndexes : Score(j) = Score(i) => i <= j

ScoreAsWritten(i) == SumOver(Keywords(knowledge_base[i]), CalledQueryLower, FALSE)

ScoreLowered(i) == SumOver(Keywords(knowledge_base[i]), CalledQueryLower, TRUE)

C13_CompletionOnlyWithoutMatch ==
    /\ chatReply.source = "completion"
         => /\ ~Truthy(retrieve_context(knowledge_base, chatReply.original_query))
            /\ chatReply.confidence > ConfidenceThreshold
    /\ chatReply.kind \in {"basic_solution", "ai_response", "ask_details"}
         => IF Truthy(retrieve_context(knowledge_base, chatReply.original_query))
            THEN chatReply.kind = "basic_solution"
            ELSE IF chatReply.confidence > ConfidenceThreshold
            THEN chatReply.kind = "ai_response"
            ELSE chatReply.kind = "ask_details"


(***************************************************************************)
(* Properties of ask_ai_hybrid and needs_human                             *)
(***************************************************************************)
HasTrigger == \E k \in ESCALATION_KEYWORDS : IsSubstring(k, StrLower(aiCall.q))

CompletionUnavailableOrFailed == ~aiCall.client \/ ~aiCall.api_ok

\* C14 as stated: needs_human is True exactly when the query contains a
\* trigger word, or no entry of the knowledge base matched the query and the
\* hosted completion was unavailable or failed.
C14_AsStated ==
    aiCall.called =>
        (aiCall.needs_human <=>
            \/ HasTrigger
            \/ (/\ ~hybrid_retrieve_context(knowledge_base, aiCall.q).found
                /\ CompletionUnavailableOrFailed))

\* C14: needs_human is True exactly when the query contains a trigger word,
\* or the knowledge base gave no non-empty answer for the query and the
\* hosted completion was unavailable or failed.
C14_EscalatesOnTriggerOrNoAnswer ==
    aiCall.called =>
        (aiCall.needs_human <=>
            \/ HasTrigger
            \/ (/\ ~Truthy(hybrid_retrieve_context(knowledge_base, aiCall.q))
                /\ CompletionUnavailableOrFailed))

\* a query without trigger word and without match is escalated because the
\* completion failed
C14_Witness ==
    /\ aiCall.called
    /\ aiCall.needs_human
    /\ ~HasTrigger
    /\ aiCall.client
    /\ ~aiCall.api_ok
    /\ knowledge_base # <<>>


(***************************************************************************)
(* Properties of the notifications                                         *)
(***************************************************************************)
SendFailed == opCall.email_attempted /\ opCall.smtp # "ok"

\* what each operation leaves in the ticket's row
OperationApplied ==
    LET row == tickets[opCall.ticket_id]
    IN CASE opCall.fn = "assign_ticket_to_developer" ->
                row.status = "IN_PROGRESS" /\ row.assigned_developer_id = opCall.developer_id
         [] opCall.fn = "complete_ticket_by_developer" ->
                row.status = "CLOSED" /\ row.assigned_developer_id = opCall.developer_id
         [] opCall.fn = "pass_ticket_by_developer" ->
                row.status = "OPEN" /\ row.assigned_developer_id = NULL
         [] opCall.fn = "cancel_ticket_by_developer" ->
                row.status = "CLOSED" /\ row.assigned_developer_id = opCall.developer_id
         [] OTHER -> FALSE

C17_GetReturnsLastPost ==
    settingsReply.handler = "get_user_settings" =>
        settingsReply.settings =
            IF posted[settingsReply.user_id].posted
            THEN posted[settingsReply.user_id].settings
            ELSE DefaultSettings


(***************************************************************************)
(* Properties of account creation                                          *)
(***************************************************************************)
\* C18: every account with role admin, project_manager or developer was
\* created by a request authenticated as admin, or, for a developer account,
\* as project_manager; a request without token creates client accounts only.
C18_StaffAccountsNeedStaff ==
    \A i \in DOMAIN accounts :
        accounts[i].role \in {"admin", "project_manager", "developer"} =>
            \/ accounts[i].created_by.role = "admin"
            \/ (/\ accounts[i].role = "developer"
                /\ accounts[i].created_by.role = "project_manager")


(***************************************************************************)
(* Properties of the developer handlers of backend/main.py                 *)
(***************************************************************************)
DeveloperHandlers == {"complete_ticket", "pass_ticket", "cancel_ticket", "update_ticket_status"}

\* request p takes this step, and its handler is one of the developer's
DeveloperStep(p) ==
    /\ pc'[p] # pc[p]
    /\ pc'[p] # "idle"
    /\ req'[p].handler \in DeveloperHandlers
    /\ req'[p].user.role = "developer"

\* the developer of request p holds the ticket's active assignment; a pass
\* that has just given it up holds it until somebody else is assigned
HoldsAssignment(p) ==
    \/ IsActiveAssignee(assignments, req'[p].ticket_id, req'[p].user.id)
    \/ (/\ pc[p] = "pass_status"
        /\ ~HasActiveAssignment(assignments, req'[p].ticket_id))

\* C19: a step of a developer's complete, pass, cancel or status-update
\* request changes tickets or assignments only while that developer holds the
\* ticket's active assignment; a request of a developer who does not hold it
\* is answered 403 and changes neither.
C19_OnlyTheAssigneeChangesTheTicket ==
    [][\A p \in Procs :
          DeveloperStep(p) =>
              /\ (tickets' # tickets \/ assignments' # assignments) => HoldsAssignment(p)
              /\ (/\ pc[p] = "idle"
                  /\ ~IsActiveAssignee(assignments, req'[p].ticket_id, req'[p].user.id))
                 => (/\ req'[p].code = 403
                     /\ pc'[p] = "done"
                     /\ UNCHANGED <<tickets, assignments>>)]_vars


(***************************************************************************)
(* Properties of self-assignment                                           *)
(***************************************************************************)
\* the call of request p has returned True
ReturnedTrue(p) ==
    /\ pc[p] = "done"
    /\ req[p].handler = "developer_self_assign"
    /\ req[p].code = 200

\* C20: of the self_assign_ticket calls under way for one ticket at most one
\* returns True, and the ticket's assigned_developer_id is then the id of the
\* caller that got True.
C20_OneSelfAssignmentWins ==
    \A p \in Procs :
        ReturnedTrue(p) =>
            /\ tickets[req[p].ticket_id].assigned_developer_id = req[p].developer_id
            /\ \A q \in Procs \ {p} :
                  ~(ReturnedTrue(q) /\ req[q].ticket_id = req[p].ticket_id)


(***************************************************************************)
(* Properties of the tickets table under concurrent calls                  *)
(***************************************************************************)
\* C21: in every reachable state a ticket with status IN_PROGRESS has a
\* non-null assigned_developer_id, also when the assignee's pass runs
\* concurrently with a status update or an assignment of the same ticket.
C21_InProgressHasDeveloper ==
    \A t \in TicketIds(tickets) :
        tickets[t].status = "IN_PROGRESS" => tickets[t].assigned_developer_id # NULL


(***************************************************************************)
(* Properties of the responses of pass and cancel in backend/main.py       *)
(***************************************************************************)
\* request p, a pass or a cancel, is answered in this step
PassOrCancelAnswered(p) ==
    /\ pc[p] # "done"
    /\ pc'[p] = "done"
    /\ req'[p].handler \in {"pass_ticket", "cancel_ticket"}
    /\ req'[p].ran

\* the request has changed the ticket's status in this step, or has run its
\* UPDATE of ticket_assignments in the step before
ChangedByRequest(p) ==
    \/ /\ req'[p].ticket_id \in TicketIds(tickets)
       /\ tickets'[req'[p].ticket_id].status # tickets[req'[p].ticket_id].status
    \/ /\ pc[p] = "pass_status"
       /\ ~IsActiveAssignee(assignments, req'[p].ticket_id, req'[p].user.id)

\* C22: a developer's pass or cancel request is all-or-nothing: a request
\* answered with an error has left the ticket's status and active assignment
\* as they were, and a request that changed them is answered with success.
C22_PassAndCancelAllOrNothing ==
    [][\A p \in Procs :
          PassOrCancelAnswered(p) => (ChangedByRequest(p) <=> req'[p].code = 200)]_vars


(***************************************************************************)
(* Properties of the completion notes in backend/main.py                   *)
(***************************************************************************)
\* the request closes a ticket and its notes are empty or blank
ClosesWithoutNotes(r) ==
    /\ \/ r.handler = "complete_ticket"
       \/ (r.handler = "update_ticket_status" /\ r.status = "CLOSED")
    /\ r.ran
    /\ Strip(r.text) = <<>>

\* C23: a developer's request that would close a ticket with empty or
\* whitespace-only notes, as a complete request or as a status update to
\* CLOSED, is rejected with 400 and never changes the ticket's status or reply.
C23_ClosingNeedsNotes ==
    [][\A p \in Procs :
          (pc'[p] # pc[p] /\ pc'[p] # "idle" /\ ClosesWithoutNotes(req'[p])) =>
              /\ UNCHANGED tickets
              /\ IsActiveAssignee(assignments, req'[p].ticket_id, req'[p].user.id)
                 => (pc'[p] = "done" /\ req'[p].code = 400)]_vars

\* C24: a chat request adds a ticket only while the entry of its session is in
\* conversation_sessions in state AWAITING_TECH_DETAILS, or in state
\* AWAITING_SATISFACTION_AI with a reply that is not affirmative, and the step
\* that adds the ticket removes the entry, so that one session adds at most
\* one ticket.
C24_OneTicketPerSession ==
    [][\A p \in Procs :
          (pc[p] = "chat_create_ticket" /\ pc'[p] = "done") =>
              /\ \/ conversation_sessions[req[p].session_id].state = "AWAITING_TECH_DETAILS"
                 \/ /\ conversation_sessions[req[p].session_id].state = "AWAITING_SATISFACTION_AI"
                    /\ ~IsSatisfied(req[p].query)
              /\ conversation_sessions'[req[p].session_id] = NoConversation]_vars

====
